---- MODULE Spec2Model ----
(***************************************************************************)
(* Model of pyvane.graph.adjustment: the multi-edge reducer                *)
(* (remove_small_mul_all), the degree-two eliminator                       *)
(* (remove_degree_two_nodes) and the branch pruner (remove_branches), on a *)
(* networkx.MultiGraph.                                                    *)
(*                                                                         *)
(* The graph is the sequence of its edges in insertion order.  An edge is  *)
(* a record [u, v, key, length, is_branch, path] with u <= v; the edges    *)
(* between one pair of nodes, in sequence order, are networkx's key        *)
(* dictionary graph[u][v].  Lengths are integers (fixed point): the        *)
(* square root of path_length is the integer square root.                  *)
(***************************************************************************)
EXTENDS Integers, Sequences, FiniteSets, TLC

\* Bounds of the model.
NumNodes == 4
MaxEdges == 4
LengthThreshold == 50

Nodes == 0..(NumNodes - 1)

\* graph.graph['pix_size']: the physical size of a pixel along each axis.
PixSize == <<10, 10>>

\* Edge lengths of the input graphs: one below the threshold, one at it.
Lengths == {10, LengthThreshold}

Min(a, b) == IF a <= b THEN a ELSE b
Max(a, b) == IF a <= b THEN b ELSE a

Reverse(s) == [i \in 1..Len(s) |-> s[Len(s) + 1 - i]]

\* Sequence s without its element at position i.
RemoveAt(s, i) == [j \in 1..(Len(s) - 1) |-> IF j < i THEN s[j] ELSE s[j + 1]]

\* All orderings of a finite set: the iteration orders of a Python set.
RECURSIVE Orderings(_)
Orderings(S) ==
    IF S = {} THEN {<<>>}
    ELSE UNION {{<<x>> \o s : s \in Orderings(S \ {x})} : x \in S}

---------------------------------------------------------------------------
\* Geometry: path_length.

ISqrt(n) == CHOOSE r \in 0..n : r * r <= n /\ (r + 1) * (r + 1) > n

\* One term of dlengths: sqrt(sum((diff * pix_size)**2)).
Dist(p, q) ==
    ISqrt(((q[1] - p[1]) * PixSize[1]) * ((q[1] - p[1]) * PixSize[1])
        + ((q[2] - p[2]) * PixSize[2]) * ((q[2] - p[2]) * PixSize[2]))

RECURSIVE path_length(_)
path_length(path) ==
    IF Len(path) < 2 THEN 0
    ELSE Dist(path[1], path[2]) + path_length(Tail(path))

\* graph.nodes[n]['center'] of the input graphs: the nodes lie on a row.
Center(n) == <<3 * n, 0>>

---------------------------------------------------------------------------
\* networkx.MultiGraph primitives on the edge sequence E.

\* Positions of the edges between a and b: graph[a][b], in key-dict order.
Between(E, a, b) ==
    {i \in DOMAIN E : E[i].u = Min(a, b) /\ E[i].v = Max(a, b)}

EdgeSeq(E, a, b) ==
    SelectSeq(E, LAMBDA e : e.u = Min(a, b) /\ e.v = Max(a, b))

KeysOf(E, a, b) == {E[i].key : i \in Between(E, a, b)}

\* Position of the edge (a, b, key), 0 when the graph has no such edge.
PosOf(E, a, b, key) ==
    LET S == {i \in Between(E, a, b) : E[i].key = key}
    IN IF S = {} THEN 0 ELSE CHOOSE i \in S : TRUE

HasEdgeKey(E, a, b, key) == PosOf(E, a, b, key) # 0

\* graph.has_edge(a, b)
has_edge(E, a, b) == Between(E, a, b) # {}

\* graph.degree(n): a self-loop counts twice.
degree(E, n) ==
    Cardinality({i \in DOMAIN E : E[i].u = n})
  + Cardinality({i \in DOMAIN E : E[i].v = n})

\* graph[n]: the neighbours of n (n itself when it has a self-loop).
neighbors(E, n) ==
    {E[i].v : i \in {j \in DOMAIN E : E[j].u = n}}
  \cup {E[i].u : i \in {j \in DOMAIN E : E[j].v = n}}

\* MultiGraph.new_edge_key: len(keydict), increased while already in use.
RECURSIVE FreeKey(_, _)
FreeKey(K, k) == IF k \in K THEN FreeKey(K, k + 1) ELSE k

new_edge_key(E, a, b) ==
    FreeKey(KeysOf(E, a, b), Cardinality(Between(E, a, b)))

\* graph.add_edge(a, b, path=..., length=..., is_branch=...)
add_edge(E, a, b, path, length, is_branch) ==
    Append(E, [u |-> Min(a, b), v |-> Max(a, b), key |-> new_edge_key(E, a, b),
               length |-> length, is_branch |-> is_branch, path |-> path])

\* A faulty variant of remove_edge, to see that the properties tell it apart.
RemoveEdgeNever(E, a, b, key) == E

\* graph.remove_edge(a, b, key) for an edge the graph has;
\* remove_edges_from skips the edges the graph has not.
remove_edge(E, a, b, key) ==
    IF HasEdgeKey(E, a, b, key) THEN RemoveAt(E, PosOf(E, a, b, key)) ELSE E

\* Keep the edges at the positions not in D.
RemovePositions(E, D) ==
    LET F[i \in 0..Len(E)] ==
            IF i = 0 THEN <<>>
            ELSE IF i \in D THEN F[i - 1] ELSE Append(F[i - 1], E[i])
    IN F[Len(E)]

SetBranch(E, i, b) == [E EXCEPT ![i].is_branch = b]

---------------------------------------------------------------------------
\* Helpers of adjustment.py.

\* A faulty variant of add_branch_info, to see that the properties tell it apart.
AddBranchInfoFirstNodeOnly(E) ==
    [i \in DOMAIN E |-> [E[i] EXCEPT !.is_branch = (degree(E, E[i].u) = 1)]]

\* add_branch_info: an edge is a branch iff it is incident on a degree-1 node.
add_branch_info(E) ==
    [i \in DOMAIN E |->
        [E[i] EXCEPT !.is_branch = (degree(E, E[i].u) = 1 \/ degree(E, E[i].v) = 1)]]

\* argmin / argmax of the lengths of the edges at positions P: Python's min
\* and max return the first extreme element in key-dict order.
argmin(E, P) ==
    CHOOSE i \in P : \A j \in P : E[i].length < E[j].length
                                  \/ (E[i].length = E[j].length /\ i <= j)

\* A faulty variant of argmax, to see that the properties tell it apart.
ArgmaxAsArgmin(E, P) == argmin(E, P)

argmax(E, P) ==
    CHOOSE i \in P : \A j \in P : E[i].length > E[j].length
                                  \/ (E[i].length = E[j].length /\ i <= j)

\* get_single_neighbor: the first neighbour; used on nodes with one neighbour.
get_single_neighbor(E, n) == CHOOSE m \in neighbors(E, n) : TRUE

\* get_single_edge_key: the first key of graph[a][b].
FirstPos(E, a, b) == CHOOSE i \in Between(E, a, b) : \A j \in Between(E, a, b) : i <= j

get_single_edge_key(E, a, b) == E[FirstPos(E, a, b)].key

degree_two_node_type(E, n) ==
    LET nb == neighbors(E, n)
    IN IF Cardinality(nb) = 2 THEN "simple"
       ELSE IF Cardinality(nb) = 1
            THEN (IF get_single_neighbor(E, n) = n THEN "loop" ELSE "multiple")
            ELSE "unidentified"

\* degree_two_iter(graph, self_loops, multiple): the degree-2 nodes of the
\* wanted types, as a list in node order.
DegreeTwoWanted(E, n, self_loops, multiple) ==
    /\ degree(E, n) = 2
    /\ \/ degree_two_node_type(E, n) = "simple"
       \/ degree_two_node_type(E, n) = "loop" /\ self_loops
       \/ degree_two_node_type(E, n) = "multiple" /\ multiple

degree_two_iter(E, self_loops, multiple) ==
    LET F[n \in (-1)..(NumNodes - 1)] ==
            IF n = -1 THEN <<>>
            ELSE IF DegreeTwoWanted(E, n, self_loops, multiple)
                 THEN Append(F[n - 1], n) ELSE F[n - 1]
    IN F[NumNodes - 1]

\* remove_if_in_list: list.remove of the first occurrence, if any.
InList(s, x) == \E i \in DOMAIN s : s[i] = x

ListRemove(s, x) ==
    RemoveAt(s, CHOOSE i \in DOMAIN s : s[i] = x /\ \A j \in DOMAIN s : s[j] = x => i <= j)

remove_if_in_list(s, x) == IF InList(s, x) THEN ListRemove(s, x) ELSE s

\* A faulty variant of remove_small_mul, to see that the properties tell it
\* apart: every edge between the two nodes below the threshold is removed.
RemoveSmallMulEvery(E, n1, n2, threshold) ==
    LET small == {i \in Between(E, n1, n2) : E[i].length < threshold}
    IN [graph |-> RemovePositions(E, small), was_removed |-> small # {}]

\* remove_small_mul: drop the smallest edge between n1 and n2 if it is
\* shorter than the threshold.
remove_small_mul(E, n1, n2, threshold) ==
    LET i == argmin(E, Between(E, n1, n2))
    IN IF E[i].length < threshold
       THEN [graph |-> RemoveAt(E, i), was_removed |-> TRUE]
       ELSE [graph |-> E, was_removed |-> FALSE]

\* A faulty variant of SmallSelfLoops, to see that the properties tell it apart.
SmallSelfLoopsButLongest(E, threshold) ==
    {i \in DOMAIN E : /\ E[i].u = E[i].v
                      /\ E[i].length < threshold
                      /\ i # argmax(E, Between(E, E[i].u, E[i].v))}

\* remove_small_mul_all, first loop: the self-loops shorter than the threshold.
SmallSelfLoops(E, threshold) ==
    {i \in DOMAIN E : E[i].u = E[i].v /\ E[i].length < threshold}

\* remove_small_mul_all, second loop: of every group of parallel edges, the
\* edges shorter than the threshold other than the (first) largest.
SmallMultiEdges(E, threshold) ==
    {i \in DOMAIN E :
        /\ Cardinality(Between(E, E[i].u, E[i].v)) > 1
        /\ E[i].length < threshold
        /\ i # argmax(E, Between(E, E[i].u, E[i].v))}

remove_small_mul_all(E, threshold) ==
    LET E1 == RemovePositions(E, SmallSelfLoops(E, threshold))
        E2 == RemovePositions(E1, SmallMultiEdges(E1, threshold))
    IN add_branch_info(E2)

\* A faulty variant of two_neighbors_data, to see that the properties tell it apart.
TwoNeighborsDataAcceptsLoop(E, node, node_type) ==
    [ok |-> TRUE, nei1 |-> node, nei2 |-> node, edge1_key |-> 0, edge2_key |-> 0]

\* two_neighbors_data: ok is FALSE where the code raises (a self-loop, an
\* unidentified type, or a 'multiple' node without exactly two edges).
two_neighbors_data(E, node, node_type) ==
    LET nb == neighbors(E, node)
    IN IF node_type = "simple"
       THEN LET n1 == CHOOSE m \in nb : \A k \in nb : m <= k
                n2 == CHOOSE m \in nb : \A k \in nb : m >= k
            IN [ok |-> TRUE, nei1 |-> n1, nei2 |-> n2,
                edge1_key |-> get_single_edge_key(E, node, n1),
                edge2_key |-> get_single_edge_key(E, node, n2)]
       ELSE IF node_type = "multiple" /\ Cardinality(Between(E, node, get_single_neighbor(E, node))) = 2
       THEN LET n == get_single_neighbor(E, node)
                es == EdgeSeq(E, node, n)
            IN [ok |-> TRUE, nei1 |-> n, nei2 |-> n,
                edge1_key |-> es[1].key, edge2_key |-> es[2].key]
       ELSE [ok |-> FALSE, nei1 |-> node, nei2 |-> node, edge1_key |-> 0, edge2_key |-> 0]

\* A faulty variant of connector_length, to see that the properties tell it apart.
ConnectorOmitted(p1, c, p2) == 0

\* make_new_path: (path from nei1 to node) + [center] + (path from node to
\* nei2), and its length.
connector_length(p1, c, p2) == path_length(<<p1[Len(p1)], c, p2[1]>>)

\* A faulty variant of make_new_path, to see that the properties tell it
\* apart: no path is reversed.
MakeNewPathAsStored(E, node, nei1, edge1_key, nei2, edge2_key) ==
    LET e1 == E[PosOf(E, node, nei1, edge1_key)]
        e2 == E[PosOf(E, node, nei2, edge2_key)]
    IN [path |-> e1.path \o <<Center(node)>> \o e2.path,
        length |-> e1.length + connector_length(e1.path, Center(node), e2.path)
                   + e2.length]

make_new_path(E, node, nei1, edge1_key, nei2, edge2_key) ==
    LET e1 == E[PosOf(E, node, nei1, edge1_key)]
        e2 == E[PosOf(E, node, nei2, edge2_key)]
        path_nei1 == IF node < nei1 THEN Reverse(e1.path) ELSE e1.path
        path_nei2 == IF node > nei2 THEN Reverse(e2.path) ELSE e2.path
    IN [path |-> path_nei1 \o <<Center(node)>> \o path_nei2,
        length |-> e1.length + connector_length(path_nei1, Center(node), path_nei2)
                   + e2.length]

\* branches_to_remove: the edges of the node that are branches shorter than
\* the threshold, as (smaller node, larger node, key).
branches_to_remove(E, node, nei1, edge1_key, nei2, edge2_key, threshold) ==
    (IF degree(E, nei1) = 1 /\ E[PosOf(E, node, nei1, edge1_key)].length < threshold
     THEN {<<Min(node, nei1), Max(node, nei1), edge1_key>>} ELSE {})
  \cup
    (IF degree(E, nei2) = 1 /\ E[PosOf(E, node, nei2, edge2_key)].length < threshold
     THEN {<<Min(node, nei2), Max(node, nei2), edge2_key>>} ELSE {})

\* A faulty variant of VisitAfterRemoval, to see that the properties tell it apart.
VisitAfterRemovalAlways(E, ntv, n) == Append(ntv, n)

\* A faulty variant of VisitAfterRemoval, to see that the properties tell it apart.
VisitAfterRemovalOnlyLeaves(E, ntv, n) ==
    IF degree(E, n) = 1 THEN remove_if_in_list(ntv, n) ELSE ntv

\* handle_new_multiedge: prune the new multi-edge with twice the threshold and
\* propagate the degree changes of the two neighbours to the work list.
VisitAfterRemoval(E, ntv, n) ==
    IF degree(E, n) = 2 THEN Append(ntv, n)
    ELSE IF degree(E, n) = 1 THEN remove_if_in_list(ntv, n)
    ELSE ntv

\* A faulty variant of handle_new_multiedge, to see that the properties tell it apart.
HandleNewMultiedgeSingleThreshold(E, nei1, nei2, threshold, ntv) ==
    LET r == remove_small_mul(E, nei1, nei2, threshold)
        G == r.graph
    IN IF r.was_removed
       THEN [graph |-> G,
             nodes_to_visit |-> VisitAfterRemoval(G, VisitAfterRemoval(G, ntv, nei1), nei2),
             is_branch |-> (degree(G, nei1) = 1 \/ degree(G, nei2) = 1)]
       ELSE [graph |-> G, nodes_to_visit |-> ntv, is_branch |-> FALSE]

\* A faulty variant of handle_new_multiedge, to see that the properties tell it apart.
HandleNewMultiedgeNoPrune(E, nei1, nei2, threshold, ntv) ==
    [graph |-> E, nodes_to_visit |-> ntv, is_branch |-> FALSE]

handle_new_multiedge(E, nei1, nei2, threshold, ntv) ==
    LET r == remove_small_mul(E, nei1, nei2, 2 * threshold)
        G == r.graph
    IN IF r.was_removed
       THEN [graph |-> G,
             nodes_to_visit |-> VisitAfterRemoval(G, VisitAfterRemoval(G, ntv, nei1), nei2),
             is_branch |-> (degree(G, nei1) = 1 \/ degree(G, nei2) = 1)]
       ELSE [graph |-> G, nodes_to_visit |-> ntv, is_branch |-> FALSE]

---------------------------------------------------------------------------
\* One iteration of the work-list loop of remove_degree_two_nodes.
\* err is "none", or the exception the iteration raises before it changes
\* the graph.

D2Result(E, ntv, added, removed, err) ==
    [graph |-> E, nodes_to_visit |-> ntv, added_branches |-> added,
     removed_branches |-> removed, err |-> err]

\* Lines 801-809: the small branches that the elimination removes leave
\* added_branches, or enter removed_branches.
NoteRemovedBranches(added, removed, b_to_rem) ==
    [added_branches |-> added \ b_to_rem,
     removed_branches |-> removed \cup (b_to_rem \ added)]

\* Lines 818-823: the edge between the neighbours becomes a branch.
MarkNewBranch(E, nei1, nei2) ==
    SetBranch(E, FirstPos(E, nei1, nei2), TRUE)

\* A faulty variant of NoteAddedBranch, to see that the properties tell it apart.
NoteAddedBranchNever(E, added, nei1, nei2, length_new_path, threshold) == added

NoteAddedBranch(E, added, nei1, nei2, length_new_path, threshold) ==
    IF length_new_path < threshold
    THEN added \cup {<<nei1, nei2, get_single_edge_key(E, nei1, nei2)>>}
    ELSE added

\* A faulty variant of NewEdgeIsBranch, to see that the properties tell it apart.
NewEdgeNeverBranch(E, nei1, nei2) == FALSE

\* A faulty variant of NewEdgeIsBranch, to see that the properties tell it apart.
NewEdgeBranchIfBothLeaves(E, nei1, nei2) == degree(E, nei1) = 1 /\ degree(E, nei2) = 1

\* Lines 788-799.
NewEdgeIsBranch(E, nei1, nei2) == degree(E, nei1) = 1 \/ degree(E, nei2) = 1

\* A faulty variant of HasNeiEdge, to see that the properties tell it apart.
HasNeiEdgeAlsoMultiple(E, node_type, nei1, nei2) ==
    node_type = "multiple" \/ has_edge(E, nei1, nei2)

\* Lines 790-796: has_nei_edge is set only for a node that is not 'multiple'.
HasNeiEdge(E, node_type, nei1, nei2) ==
    node_type # "multiple" /\ has_edge(E, nei1, nei2)

D2Eliminate(E, ntv, added, removed, threshold, rbc, node, node_type, d) ==
    LET new == make_new_path(E, node, d.nei1, d.edge1_key, d.nei2, d.edge2_key)
        multiple == node_type = "multiple"
        has_nei_edge == HasNeiEdge(E, node_type, d.nei1, d.nei2)
        is_branch == ~multiple /\ ~has_nei_edge /\ NewEdgeIsBranch(E, d.nei1, d.nei2)
        ntv1 == IF multiple /\ degree(E, d.nei1) = 2 THEN ListRemove(ntv, d.nei1) ELSE ntv
        notes == IF is_branch /\ rbc
                 THEN NoteRemovedBranches(added, removed,
                          branches_to_remove(E, node, d.nei1, d.edge1_key,
                                             d.nei2, d.edge2_key, threshold))
                 ELSE [added_branches |-> added, removed_branches |-> removed]
        E1 == remove_edge(remove_edge(E, node, d.nei1, d.edge1_key),
                          node, d.nei2, d.edge2_key)
        E2 == add_edge(E1, d.nei1, d.nei2, new.path, new.length, is_branch)
        h  == IF has_nei_edge
              THEN handle_new_multiedge(E2, d.nei1, d.nei2, threshold, ntv1)
              ELSE [graph |-> E2, nodes_to_visit |-> ntv1, is_branch |-> is_branch]
    IN IF h.is_branch
       THEN D2Result(MarkNewBranch(h.graph, d.nei1, d.nei2), h.nodes_to_visit,
                     IF rbc THEN NoteAddedBranch(h.graph, notes.added_branches,
                                                 d.nei1, d.nei2, new.length, threshold)
                            ELSE notes.added_branches,
                     notes.removed_branches, "none")
       ELSE D2Result(h.graph, h.nodes_to_visit, notes.added_branches,
                     notes.removed_branches, "none")

D2Iteration(E, ntv, added, removed, threshold, rbc) ==
    LET node == ntv[Len(ntv)]
        rest == SubSeq(ntv, 1, Len(ntv) - 1)
        node_type == degree_two_node_type(E, node)
        d == two_neighbors_data(E, node, node_type)
    IN IF node_type = "unidentified"
       THEN D2Result(E, rest, added, removed, "UnboundLocalError")
       ELSE IF ~d.ok
       THEN D2Result(E, rest, added, removed, "ValueError")
       ELSE IF node_type = "multiple" /\ degree(E, d.nei1) = 2 /\ ~InList(rest, d.nei1)
       THEN D2Result(E, rest, added, removed, "ValueError")
       ELSE D2Eliminate(E, rest, added, removed, threshold, rbc, node, node_type, d)

\* A faulty variant of InitialWorkList, to see that the properties tell it apart.
InitialWorkListNone(E, initial_node) == <<>>

\* Another faulty variant of InitialWorkList: the nodes whose only edge is a
\* self-loop are listed too.
InitialWorkListWithLoops(E, initial_node) ==
    IF initial_node = -1 THEN degree_two_iter(E, TRUE, FALSE)
    ELSE IF degree_two_node_type(E, initial_node) = "simple" THEN <<initial_node>>
    ELSE <<>>

\* Lines 770-777: the initial work list.  initial_node = -1 stands for None.
InitialWorkList(E, initial_node) ==
    IF initial_node = -1 THEN degree_two_iter(E, FALSE, FALSE)
    ELSE IF degree_two_node_type(E, initial_node) = "simple" THEN <<initial_node>>
    ELSE <<>>

---------------------------------------------------------------------------
\* util.PriorityQueue: a sequence of [priority, task] in insertion order.

PQ_has(q, task) == \E i \in DOMAIN q : q[i].task = task

PQ_without(q, task) == SelectSeq(q, LAMBDA e : e.task # task)

\* add_task: a task already in the queue is replaced.
PQ_add_task(q, priority, task) ==
    Append(PQ_without(q, task), [priority |-> priority, task |-> task])

\* The entry pop_task returns: least priority, earliest inserted among ties.
PQ_first(q) ==
    CHOOSE i \in DOMAIN q : \A j \in DOMAIN q :
        q[i].priority < q[j].priority \/ (q[i].priority = q[j].priority /\ i <= j)

\* graph.edges(keys=True): by node, by neighbour in adjacency order, by key
\* order; each edge is reported from its first node, (u, v, key) with u <= v.
EdgeBefore(E, i, j) ==
    \/ E[i].u < E[j].u
    \/ /\ E[i].u = E[j].u
       /\ \/ FirstPos(E, E[i].u, E[i].v) < FirstPos(E, E[j].u, E[j].v)
          \/ (E[i].v = E[j].v /\ i <= j)

RECURSIVE EdgesInOrder(_, _)
EdgesInOrder(E, P) ==
    IF P = {} THEN <<>>
    ELSE LET i == CHOOSE k \in P : \A j \in P : EdgeBefore(E, k, j)
         IN <<i>> \o EdgesInOrder(E, P \ {i})

EdgeTask(e) == <<e.u, e.v, e.key>>

\* Lines 945-952: the queue of all branches shorter than the threshold.
IsSmallBranch(e, threshold) == e.is_branch /\ e.length < threshold

InitialQueue(E, threshold) ==
    LET ord == EdgesInOrder(E, {i \in DOMAIN E : IsSmallBranch(E[i], threshold)})
    IN [k \in DOMAIN ord |-> [priority |-> E[ord[k]].length, task |-> EdgeTask(E[ord[k]])]]

\* Lines 974-976: add_task for every added branch, in the order seq.
RECURSIVE AddAll(_, _, _)
AddAll(q, E, seq) ==
    IF seq = <<>> THEN q
    ELSE AddAll(PQ_add_task(q, E[PosOf(E, seq[1][1], seq[1][2], seq[1][3])].length, seq[1]),
                E, Tail(seq))

---------------------------------------------------------------------------
\* The input graphs: connected multigraphs (self-loops and parallel edges
\* allowed) with at most MaxEdges edges on the nodes 0..k-1, k <= NumNodes;
\* the other nodes are isolated.

Pairs == {p \in Nodes \X Nodes : p[1] <= p[2]}

PairLeq(p, q) == p[1] < q[1] \/ (p[1] = q[1] /\ p[2] <= q[2])

RECURSIVE Shapes(_, _)
Shapes(k, lo) ==
    IF k = 0 THEN {<<>>}
    ELSE UNION {{<<p>> \o s : s \in Shapes(k - 1, p)} : p \in {q \in Pairs : PairLeq(lo, q)}}

Used(s) == UNION {{s[i][1], s[i][2]} : i \in DOMAIN s}

RECURSIVE Reach(_, _)
Reach(s, R) ==
    LET R2 == R \cup UNION {{s[i][1], s[i][2]} :
                      i \in {j \in DOMAIN s : s[j][1] \in R \/ s[j][2] \in R}}
    IN IF R2 = R THEN R ELSE Reach(s, R2)

ConnectedShape(s) ==
    /\ Used(s) = 0..(Cardinality(Used(s)) - 1)
    /\ s = <<>> \/ Reach(s, {0}) = Used(s)

InputShapes ==
    {s \in UNION {Shapes(k, <<0, 0>>) : k \in 0..MaxEdges} : ConnectedShape(s)}

\* The i-th edge of the input: its path leaves beside the center of u and
\* arrives beside the center of v, on the row i % 2.
InputPath(a, b, i) == << <<3 * a + 1, i % 2>>, <<3 * b - 1, i % 2>> >>

InputGraph(s, len, flag) ==
    [i \in DOMAIN s |->
        [u |-> s[i][1], v |-> s[i][2],
         key |-> Cardinality({j \in 1..(i - 1) : s[j] = s[i]}),
         length |-> len[i], is_branch |-> flag,
         path |-> InputPath(s[i][1], s[i][2], i)]]

\* The edge lengths an input of shape s may have.
InputLengths(s) == [DOMAIN s -> Lengths]

\* The input with the is_branch attributes add_branch_info gives.
FlaggedGraph(s, len) == add_branch_info(InputGraph(s, len, FALSE))

---------------------------------------------------------------------------
\* State.

VARIABLES
    graph,              \* the graph being adjusted
    init_graph,         \* the graph when the function was called
    prev_graph,         \* the graph before the last step
    call,               \* the call: function and arguments
    pc,                 \* "call", "d2_loop", "rb_loop", "rb_d2", "done", "raised"
    nodes_to_visit,     \* work list of remove_degree_two_nodes
    added_branches,     \* of the running remove_degree_two_nodes
    removed_branches,
    branch_queue,       \* priority queue of remove_branches
    err,                \* the exception raised, "none" if none
    last,               \* what the last step did
    graph_nodes,        \* the nodes of the graph being adjusted
    adj,                \* the running adjust_graph call, NoAdj outside one
    creation,           \* the running create_graph call, NoCreation outside one
    graph_simple        \* the running simplify call, NoSimple outside one

vars == <<graph, init_graph, prev_graph, call, pc, nodes_to_visit, added_branches,
          removed_branches, branch_queue, err, last, graph_nodes, adj, creation, graph_simple>>

NoTask == <<-1, -1, -1>>

Step(kind, node, task, length, leaf, existed, missing) ==
    [step |-> kind, node |-> node, task |-> task, length |-> length, leaf |-> leaf,
     existed |-> existed, missing |-> missing]

NoStep == Step("none", -1, NoTask, 0, FALSE, FALSE, {})

Call(fn, threshold, initial_node, rbc) ==
    [fn |-> fn, length_threshold |-> threshold, initial_node |-> initial_node,
     return_branch_changes |-> rbc]

\* No adjust_graph call is running.
NoAdj ==
    [keep_nodes |-> TRUE, collapse_indices |-> FALSE, run |-> 0, arg |-> <<>>,
     arg_nodes |-> {}, aliased |-> FALSE, old_id |-> <<>>, kept |-> {}]

\* No create_graph call is running.
NoCreation ==
    [img_skel |-> <<>>, img_num_neighbors |-> <<>>, ips |-> <<>>, edges |-> <<>>,
     visited_branches |-> {}, ip1_idx |-> 0, branch_idx |-> 0, path |-> <<>>]

\* No simplify call is running.  In one, nodes and edges are the graph being
\* built, arg_nodes the node attributes of the argument (its edges are the
\* variable graph), aliased whether the two graphs are the same object, and
\* edge_idx the position of the loop.
NoSimple ==
    [nodes |-> <<>>, edges |-> <<>>, arg_nodes |-> <<>>, aliased |-> FALSE, edge_idx |-> 0]

\* graph.add_edge(u, v) adds the nodes the graph has not; removing edges
\* removes no node.
add_nodes(N, E) == N \cup {E[i].u : i \in DOMAIN E} \cup {E[i].v : i \in DOMAIN E}

InitState(G, c) ==
    /\ graph_nodes = Nodes
    /\ adj = NoAdj
    /\ creation = NoCreation
    /\ graph_simple = NoSimple
    /\ graph = G
    /\ init_graph = G
    /\ prev_graph = G
    /\ call = c
    /\ pc = "call"
    /\ nodes_to_visit = <<>>
    /\ added_branches = {}
    /\ removed_branches = {}
    /\ branch_queue = <<>>
    /\ err = "none"
    /\ last = NoStep

---------------------------------------------------------------------------
\* add_branch_info and remove_small_mul_all, each as one step.

AddBranchInfo ==
    /\ pc = "call" /\ call.fn = "add_branch_info"
    /\ graph' = add_branch_info(graph)
    /\ prev_graph' = graph
    /\ pc' = "done"
    /\ last' = Step("add_branch_info", -1, NoTask, 0, FALSE, FALSE, {})
    /\ UNCHANGED <<init_graph, call, nodes_to_visit, added_branches, removed_branches,
                   branch_queue, err>>
    /\ UNCHANGED <<graph_nodes, adj, creation, graph_simple>>

RemoveSmallMulAll ==
    /\ pc = "call" /\ call.fn = "remove_small_mul_all"
    /\ graph' = remove_small_mul_all(graph, call.length_threshold)
    /\ prev_graph' = graph
    /\ pc' = "done"
    /\ last' = Step("remove_small_mul_all", -1, NoTask, 0, FALSE, FALSE, {})
    /\ UNCHANGED <<init_graph, call, nodes_to_visit, added_branches, removed_branches,
                   branch_queue, err>>
    /\ UNCHANGED <<graph_nodes, adj, creation, graph_simple>>

---------------------------------------------------------------------------
\* remove_degree_two_nodes: the start, one work-list iteration, the return.

D2Start ==
    /\ pc = "call" /\ call.fn = "remove_degree_two_nodes"
    /\ nodes_to_visit' = InitialWorkList(graph, call.initial_node)
    /\ added_branches' = {}
    /\ removed_branches' = {}
    /\ prev_graph' = graph
    /\ pc' = "d2_loop"
    /\ last' = Step("d2_start", call.initial_node, NoTask, 0, FALSE, FALSE, {})
    /\ UNCHANGED <<graph, init_graph, call, branch_queue, err>>
    /\ UNCHANGED <<graph_nodes, adj, creation, graph_simple>>

\* Lines 779-823.  Inside remove_branches (pc = "rb_d2") the call is made
\* with return_branch_changes = True.
D2Iter ==
    /\ pc \in {"d2_loop", "rb_d2"}
    /\ nodes_to_visit # <<>>
    /\ LET r == D2Iteration(graph, nodes_to_visit, added_branches, removed_branches,
                            call.length_threshold,
                            pc = "rb_d2" \/ call.return_branch_changes)
       IN /\ graph' = r.graph
          /\ nodes_to_visit' = r.nodes_to_visit
          /\ added_branches' = r.added_branches
          /\ removed_branches' = r.removed_branches
          /\ err' = r.err
          /\ pc' = IF r.err = "none" THEN pc ELSE "raised"
    /\ prev_graph' = graph
    /\ last' = Step("d2_iter", nodes_to_visit[Len(nodes_to_visit)], NoTask, 0, FALSE,
                    FALSE, {})
    /\ UNCHANGED <<init_graph, call, branch_queue>>
    /\ graph_nodes' = add_nodes(graph_nodes, graph')
    /\ UNCHANGED <<adj, creation, graph_simple>>

D2Return ==
    /\ pc = "d2_loop"
    /\ nodes_to_visit = <<>>
    /\ pc' = "done"
    /\ prev_graph' = graph
    /\ last' = Step("d2_return", -1, NoTask, 0, FALSE, FALSE, {})
    /\ UNCHANGED <<graph, init_graph, call, nodes_to_visit, added_branches,
                   removed_branches, branch_queue, err>>
    /\ UNCHANGED <<graph_nodes, adj, creation, graph_simple>>

---------------------------------------------------------------------------
\* remove_branches.

\* Lines 944-952.
RBStart ==
    /\ pc = "call" /\ call.fn = "remove_branches"
    /\ branch_queue' = InitialQueue(graph, call.length_threshold)
    /\ pc' = IF InitialQueue(graph, call.length_threshold) = <<>> THEN "done" ELSE "rb_loop"
    /\ prev_graph' = graph
    /\ last' = Step("rb_start", -1, NoTask, 0, FALSE, FALSE, {})
    /\ UNCHANGED <<graph, init_graph, call, nodes_to_visit, added_branches,
                   removed_branches, err>>
    /\ UNCHANGED <<graph_nodes, adj, creation, graph_simple>>

\* Lines 965-968.
target_node(E, node1, node2) == IF degree(E, node1) = 0 THEN node2 ELSE node1

\* Lines 979-984: the one remaining edge of the target becomes a branch and
\* enters the queue.
TargetEdge(E, target) ==
    FirstPos(E, target, get_single_neighbor(E, target))

TargetTask(E, target) ==
    <<target, get_single_neighbor(E, target),
      get_single_edge_key(E, target, get_single_neighbor(E, target))>>

\* A faulty variant of AddTargetEdge, to see that the properties tell it apart.
AddTargetEdgeNever(q, E, target) == q

AddTargetEdge(q, E, target) ==
    PQ_add_task(q, E[TargetEdge(E, target)].length, TargetTask(E, target))

\* A faulty variant of MarkTargetBranch, to see that the properties tell it apart.
MarkTargetBranchNever(E, target) == E

MarkTargetBranch(E, target) == SetBranch(E, TargetEdge(E, target), TRUE)

IsLeafEdge(E, i) == degree(E, E[i].u) = 1 \/ degree(E, E[i].v) = 1

\* Lines 961-984 up to the call of remove_degree_two_nodes: pop the shortest
\* branch, remove it, and look at the degree of the surviving end.
RBPop ==
    /\ pc = "rb_loop"
    /\ branch_queue # <<>>
    /\ LET i == PQ_first(branch_queue)
           task == branch_queue[i].task
           q == RemoveAt(branch_queue, i)
           pos == PosOf(graph, task[1], task[2], task[3])
       IN IF pos = 0
          THEN \* graph.remove_edge raises NetworkXError
               /\ branch_queue' = q
               /\ err' = "NetworkXError"
               /\ pc' = "raised"
               /\ last' = Step("pop", -1, task, branch_queue[i].priority, FALSE, FALSE, {})
               /\ UNCHANGED <<graph, nodes_to_visit, added_branches, removed_branches>>
          ELSE LET E == RemoveAt(graph, pos)
                   target == target_node(E, task[1], task[2])
               IN /\ last' = Step("pop", target, task, graph[pos].length,
                                  IsLeafEdge(graph, pos), TRUE, {})
                  /\ err' = err
                  /\ IF degree(E, target) = 2
                     THEN /\ graph' = E
                          /\ branch_queue' = q
                          /\ nodes_to_visit' = InitialWorkList(E, target)
                          /\ added_branches' = {}
                          /\ removed_branches' = {}
                          /\ pc' = "rb_d2"
                     ELSE IF degree(E, target) = 1
                     THEN /\ graph' = MarkTargetBranch(E, target)
                          /\ branch_queue' = AddTargetEdge(q, E, target)
                          /\ pc' = pc
                          /\ UNCHANGED <<nodes_to_visit, added_branches, removed_branches>>
                     ELSE /\ graph' = E
                          /\ branch_queue' = q
                          /\ pc' = pc
                          /\ UNCHANGED <<nodes_to_visit, added_branches, removed_branches>>
    /\ prev_graph' = graph
    /\ UNCHANGED <<init_graph, call>>
    /\ UNCHANGED <<graph_nodes, adj, creation, graph_simple>>

\* Lines 974-978, once the cascaded remove_degree_two_nodes has returned:
\* add_task for the added branches (in the set's iteration order), then
\* remove_task for the removed ones.  remove_task of a task the queue does not
\* hold either raises KeyError or does nothing.
RBApply ==
    /\ pc = "rb_d2"
    /\ nodes_to_visit = <<>>
    /\ \E ord \in Orderings(added_branches) :
         IF \E b \in added_branches : ~HasEdgeKey(graph, b[1], b[2], b[3])
         THEN /\ err' = "KeyError" /\ pc' = "raised"
              /\ last' = Step("apply", -1, NoTask, 0, FALSE, FALSE, {})
              /\ UNCHANGED branch_queue
         ELSE LET q1 == AddAll(branch_queue, graph, ord)
                  missing == {b \in removed_branches : ~PQ_has(q1, b)}
                  q2 == SelectSeq(q1, LAMBDA e : e.task \notin removed_branches)
              IN /\ last' = Step("apply", -1, NoTask, 0, FALSE, FALSE, missing)
                 /\ \E raises \in BOOLEAN :
                      IF missing # {} /\ raises
                      THEN /\ err' = "KeyError" /\ pc' = "raised"
                           /\ UNCHANGED branch_queue
                      ELSE /\ err' = err /\ pc' = "rb_loop"
                           /\ branch_queue' = q2
    /\ prev_graph' = graph
    /\ UNCHANGED <<graph, init_graph, call, nodes_to_visit, added_branches,
                   removed_branches>>
    /\ UNCHANGED <<graph_nodes, adj, creation, graph_simple>>

RBReturn ==
    /\ pc = "rb_loop"
    /\ branch_queue = <<>>
    /\ pc' = "done"
    /\ prev_graph' = graph
    /\ last' = Step("rb_return", -1, NoTask, 0, FALSE, FALSE, {})
    /\ UNCHANGED <<graph, init_graph, call, nodes_to_visit, added_branches,
                   removed_branches, branch_queue, err>>
    /\ UNCHANGED <<graph_nodes, adj, creation, graph_simple>>

---------------------------------------------------------------------------
\* Specifications.

\* remove_branches(graph, length_threshold) on a graph with consistent
\* is_branch attributes.
Init ==
    \E s \in InputShapes :
        \E len \in InputLengths(s) :
            InitState(FlaggedGraph(s, len),
                      Call("remove_branches", LengthThreshold, -1, FALSE))

Next == RBStart \/ RBPop \/ D2Iter \/ RBApply \/ RBReturn

Spec == Init /\ [][Next]_vars

\* remove_degree_two_nodes(graph, length_threshold, initial_node,
\* return_branch_changes=True) on a graph with consistent is_branch
\* attributes; initial_node is None (-1) or a node of degree two.
InitD2 ==
    \E s \in InputShapes :
        \E len \in InputLengths(s) :
            \E n \in {-1} \cup {m \in Nodes : degree(FlaggedGraph(s, len), m) = 2} :
                InitState(FlaggedGraph(s, len),
                          Call("remove_degree_two_nodes", LengthThreshold, n, TRUE))

NextD2 == D2Start \/ D2Iter \/ D2Return

SpecD2 == InitD2 /\ [][NextD2]_vars

\* add_branch_info(graph) and remove_small_mul_all(graph, t), whatever the
\* is_branch attributes hold before.
InitMul ==
    \E s \in InputShapes :
        \E len \in InputLengths(s) :
            \E flag \in BOOLEAN :
                \E c \in {Call("add_branch_info", 0, -1, FALSE),
                          Call("remove_small_mul_all", LengthThreshold, -1, FALSE),
                          Call("remove_small_mul_all", 2 * LengthThreshold, -1, FALSE)} :
                    InitState(InputGraph(s, len, flag), c)

NextMul == AddBranchInfo \/ RemoveSmallMulAll

SpecMul == InitMul /\ [][NextMul]_vars

---------------------------------------------------------------------------
\* Properties.

thr == call.length_threshold

\* is_branch is true exactly on the edges incident on a degree-1 node.
FlagsConsistent(E) ==
    \A i \in DOMAIN E :
        E[i].is_branch <=> (degree(E, E[i].u) = 1 \/ degree(E, E[i].v) = 1)

QueueTasks == {branch_queue[i].task : i \in DOMAIN branch_queue}

\* The task names an edge of E, whichever way round its nodes are given.
TaskInGraph(E, task) == HasEdgeKey(E, task[1], task[2], task[3])

AtLoopHead == pc = "rb_loop"

\* C1: at the start of every iteration of the remove_branches loop every
\* identity in the queue names an edge of the graph; no popped identity names
\* an edge the graph has not, and no identity given to remove_task is absent
\* from the queue.
C1_QueueNamesGraphEdges ==
    /\ AtLoopHead => \A t \in QueueTasks : TaskInGraph(graph, t)
    /\ last.step = "pop" => last.existed
    /\ last.step = "apply" => last.missing = {}

\* C2: at the start of every iteration of the remove_branches loop every edge
\* with is_branch = true and length < length_threshold is in the queue (some
\* queued identity names it).
C2_SmallBranchesQueued ==
    AtLoopHead =>
        \A i \in DOMAIN graph :
            IsSmallBranch(graph[i], thr) =>
                \E t \in QueueTasks : PosOf(graph, t[1], t[2], t[3]) = i

\* C2 witness: an iteration with a cascaded elimination has ended, the
\* elimination made a new small branch, and the graph holds a small branch.
C2_Witness ==
    /\ AtLoopHead /\ last.step = "apply"
    /\ added_branches # {}
    /\ \E i \in DOMAIN graph : IsSmallBranch(graph[i], thr)

\* C3: every edge the pruning loop pops and removes is, when removed,
\* incident on a degree-1 node and shorter than length_threshold.
C3_OnlySmallBranchesRemoved ==
    last.step = "pop" /\ last.existed => last.leaf /\ last.length < thr

\* C4: remove_degree_two_nodes keeps is_branch consistent: after every
\* work-list iteration and at the return, in both modes.
C4_D2KeepsFlags ==
    pc \in {"d2_loop", "done"} => FlagsConsistent(graph)

\* C4 witness: an iteration eliminated a node, pruned the new multi-edge and
\* left a branch between the neighbours.
C4_Witness ==
    /\ pc = "d2_loop" /\ last.step = "d2_iter"
    /\ Len(graph) = Len(prev_graph) - 2
    /\ \E i \in DOMAIN graph : graph[i].is_branch /\ degree(prev_graph, graph[i].u) = 2

\* C5: remove_branches keeps is_branch consistent: at the end of every
\* iteration of the pruning loop and at the return.
C5_RBKeepsFlags ==
    pc \in {"rb_loop", "done"} => FlagsConsistent(graph)

\* C5 witness: an iteration ended whose popped edge left the surviving end
\* with degree 1, and the end's remaining edge was not a branch before.
C5_Witness ==
    /\ AtLoopHead /\ last.step = "pop" /\ last.existed
    /\ degree(graph, last.node) = 1
    /\ \E i \in DOMAIN prev_graph :
          /\ ~prev_graph[i].is_branch
          /\ last.node \in {prev_graph[i].u, prev_graph[i].v}

\* C6: after add_branch_info(graph) and after remove_small_mul_all(graph, t)
\* every edge is a branch iff one of its ends has degree 1.
C6_FlagsAfterAnnotation ==
    pc = "done" /\ call.fn \in {"add_branch_info", "remove_small_mul_all"}
        => FlagsConsistent(graph)

\* C6 witness: remove_small_mul_all removed an edge and an edge whose
\* attribute was false before is a branch now.
C6_Witness ==
    /\ pc = "done" /\ call.fn = "remove_small_mul_all"
    /\ Len(graph) < Len(init_graph)
    /\ \E i \in DOMAIN graph : graph[i].is_branch
    /\ \A i \in DOMAIN init_graph : ~init_graph[i].is_branch

\* The parallel edges between two distinct nodes in the input.
Group(a, b) == {init_graph[i] : i \in Between(init_graph, a, b)}

Survivors(a, b) == {graph[i] : i \in Between(graph, a, b)}

\* C7: after remove_small_mul_all(graph, t), of every group of two or more
\* parallel edges between distinct nodes: if one has length >= t exactly the
\* edges with length >= t survive; otherwise exactly one edge survives, of the
\* largest length of the group.
C7_ParallelEdgesReduced ==
    pc = "done" /\ call.fn = "remove_small_mul_all" =>
        \A a \in Nodes : \A b \in Nodes :
            a < b /\ Cardinality(Group(a, b)) >= 2 =>
                IF \E e \in Group(a, b) : e.length >= thr
                THEN {[e EXCEPT !.is_branch = FALSE] : e \in Survivors(a, b)}
                       = {[e EXCEPT !.is_branch = FALSE] :
                             e \in {g \in Group(a, b) : g.length >= thr}}
                ELSE /\ Cardinality(Survivors(a, b)) = 1
                     /\ \A e \in Survivors(a, b) :
                           /\ [e EXCEPT !.is_branch = FALSE]
                                \in {[g EXCEPT !.is_branch = FALSE] : g \in Group(a, b)}
                           /\ \A g \in Group(a, b) : g.length <= e.length

\* C7 witness: three parallel edges, two shorter than the threshold and one
\* at the threshold: the one at the threshold is all that survives.
C7_Witness ==
    /\ pc = "done" /\ call.fn = "remove_small_mul_all"
    /\ \E a \in Nodes : \E b \in Nodes :
          /\ a < b
          /\ Cardinality(Between(init_graph, a, b)) = 3
          /\ Cardinality({i \in Between(init_graph, a, b) :
                             init_graph[i].length < thr}) = 2
          /\ \E e \in Group(a, b) : e.length = thr
          /\ Cardinality(Survivors(a, b)) = 1

\* adjust_graph, keep_nodes = False: the nodes of degree zero are removed.
kept_nodes(E) == {n \in Nodes : degree(E, n) # 0}

SelfLoops(E) == {E[i] : i \in {j \in DOMAIN E : E[j].u = E[j].v}}

\* C8: after remove_small_mul_all(graph, t) no self-loop shorter than t is
\* left, every self-loop with length >= t is still there, and a node whose
\* only edges were self-loops shorter than t has degree 0 (and is not among
\* the nodes adjust_graph keeps).
C8_SelfLoopsReduced ==
    pc = "done" /\ call.fn = "remove_small_mul_all" =>
        /\ \A e \in SelfLoops(graph) : e.length >= thr
        /\ \A e \in SelfLoops(init_graph) :
              e.length >= thr =>
                 \E g \in SelfLoops(graph) :
                     [g EXCEPT !.is_branch = FALSE] = [e EXCEPT !.is_branch = FALSE]
        /\ \A n \in Nodes :
              (/\ neighbors(init_graph, n) = {n}
               /\ \A e \in SelfLoops(init_graph) : e.u = n => e.length < thr)
                 => degree(graph, n) = 0 /\ n \notin kept_nodes(graph)

\* C8 witness: a node with a single short self-loop and nothing else lost it.
C8_Witness ==
    /\ pc = "done" /\ call.fn = "remove_small_mul_all"
    /\ Len(init_graph) = 1 /\ init_graph[1].u = init_graph[1].v
    /\ init_graph[1].length < thr
    /\ graph = <<>>

\* The pixel of an edge's path at the end that lies at node n: paths run from
\* the smaller node to the larger one.
PathEndAt(e, n, other) ==
    IF n < other THEN e.path[1] ELSE e.path[Len(e.path)]

\* The node just taken from the work list was a degree-2 node with two
\* distinct neighbours that were not joined by an edge.
SimpleUnjoined(n) ==
    /\ last.step = "d2_iter"
    /\ degree(prev_graph, n) = 2
    /\ Cardinality(neighbors(prev_graph, n)) = 2
    /\ n \notin neighbors(prev_graph, n)
    /\ \A a \in neighbors(prev_graph, n) : \A b \in neighbors(prev_graph, n) :
          a # b => ~has_edge(prev_graph, a, b)

\* C9: eliminating a simple degree-2 node whose neighbours A < C were not
\* joined removes its two edges, leaves it with degree 0 and adds exactly one
\* edge A-C, whose length is the two lengths plus the length of the connector
\* (end of the first path, node center, start of the second path).
C9_MergedLength ==
    \A n \in Nodes : SimpleUnjoined(n) /\ last.node = n =>
        \E a \in neighbors(prev_graph, n) : \E c \in neighbors(prev_graph, n) :
            /\ a < c
            /\ err = "none"
            /\ degree(graph, n) = 0
            /\ Len(graph) = Len(prev_graph) - 1
            /\ Cardinality(Between(graph, a, c)) = 1
            /\ \E i \in Between(prev_graph, n, a) : \E j \in Between(prev_graph, n, c) :
                  graph[FirstPos(graph, a, c)].length =
                      prev_graph[i].length + prev_graph[j].length
                      + Dist(PathEndAt(prev_graph[i], n, a), Center(n))
                      + Dist(Center(n), PathEndAt(prev_graph[j], n, c))

\* C9 witness: such an elimination happened, and its two connector halves
\* differ in length.
C9_Witness ==
    \E n \in Nodes :
        /\ SimpleUnjoined(n) /\ last.node = n
        /\ degree(graph, n) = 0
        /\ \E i \in DOMAIN prev_graph : \E j \in DOMAIN prev_graph :
              /\ n \in {prev_graph[i].u, prev_graph[i].v}
              /\ n \in {prev_graph[j].u, prev_graph[j].v}
              /\ Dist(prev_graph[i].path[1], prev_graph[i].path[2])
                   # Dist(prev_graph[j].path[1], prev_graph[j].path[2])
              /\ prev_graph[i].path[1][2] # prev_graph[j].path[1][2]

\* C10: when remove_branches returns, no edge has is_branch = true and
\* length < length_threshold.
C10_NoSmallBranchLeft ==
    pc = "done" /\ call.fn = "remove_branches" =>
        \A i \in DOMAIN graph : ~IsSmallBranch(graph[i], thr)

\* C10 witness: remove_branches returned after removing edges, a cascaded
\* elimination was part of it, and edges are left.
C10_Witness ==
    /\ pc = "done" /\ call.fn = "remove_branches"
    /\ last.step = "rb_return"
    /\ graph # <<>>
    /\ \E i \in DOMAIN graph : Len(graph[i].path) > 2

---------------------------------------------------------------------------
\* The star scenario: remove_branches on a center of degree 4 with four
\* terminal branches, two shorter than the threshold and two not.

StarNodes == 0..4

ShortLengths == {10, LengthThreshold \div 2}

LongLengths == {LengthThreshold, 10 * LengthThreshold}

\* The four edges of the star with center c, in the order of the leaves.
StarShape(c) ==
    LET leaves == SelectSeq([i \in 1..5 |-> i - 1], LAMBDA n : n # c)
    IN [i \in 1..4 |-> <<Min(c, leaves[i]), Max(c, leaves[i])>>]

\* The lengths: the edges at the positions in short are short.
StarLengths(short) ==
    {len \in [1..4 -> ShortLengths \cup LongLengths] :
        \A i \in 1..4 : (len[i] \in ShortLengths) <=> (i \in short)}

InitStar ==
    \E c \in StarNodes :
        \E short \in {S \in SUBSET (1..4) : Cardinality(S) = 2} :
            \E len \in StarLengths(short) :
                InitState(FlaggedGraph(StarShape(c), len),
                          Call("remove_branches", LengthThreshold, -1, FALSE))

SpecStar == InitStar /\ [][Next]_vars

StarCenter == CHOOSE c \in StarNodes : degree(init_graph, c) = 4

\* The other end of an edge of the star.
StarLeaf(e) == IF e.u = StarCenter THEN e.v ELSE e.u

LongEdges == {i \in DOMAIN init_graph : init_graph[i].length >= thr}

\* C11: on a star with a center of degree 4 and four terminal branches, two
\* shorter than the threshold and two not, remove_branches removes exactly
\* the two short branches by popping them, raises nothing, and returns a graph
\* with exactly one edge: it joins the terminals of the two long branches and
\* its length is the sum of their lengths plus the connector through the
\* center, made by the cascaded remove_degree_two_nodes.
C11_StarScenario ==
    /\ err = "none"
    /\ last.step = "pop" =>
          /\ last.existed /\ last.length < thr
          /\ \E i \in DOMAIN init_graph \ LongEdges : EdgeTask(init_graph[i]) = last.task
    /\ last.step = "d2_iter" => last.node = StarCenter /\ pc = "rb_d2"
    /\ pc = "done" =>
          /\ Len(graph) = 1
          /\ degree(graph, StarCenter) = 0
          /\ \E i \in LongEdges : \E j \in LongEdges :
                /\ i # j
                /\ {graph[1].u, graph[1].v}
                      = {StarLeaf(init_graph[i]), StarLeaf(init_graph[j])}
                /\ graph[1].length =
                      init_graph[i].length + init_graph[j].length
                      + Dist(PathEndAt(init_graph[i], StarCenter, StarLeaf(init_graph[i])),
                             Center(StarCenter))
                      + Dist(Center(StarCenter),
                             PathEndAt(init_graph[j], StarCenter, StarLeaf(init_graph[j])))

\* C11 witness: the scenario with the lengths in the proportion 0.5, 0.5, 10,
\* 10 to the threshold 1 has returned with one edge.
C11_Witness ==
    /\ pc = "done" /\ last.step = "rb_return"
    /\ Len(init_graph) = 4 /\ degree(init_graph, StarCenter) = 4
    /\ \A i \in DOMAIN init_graph :
          init_graph[i].length \in {LengthThreshold \div 2, 10 * LengthThreshold}
    /\ Len(graph) = 1

---------------------------------------------------------------------------
\* adjust_graph(graph, length_threshold, keep_nodes, collapse_indices).

\* The argument graph is what to_networkx makes: edges with a 'path' only.
\* A path of kind 0 runs straight between the two ends; a path of kind 1
\* makes a detour and is longer than twice the threshold.
PathKinds == {0, 1}

ArgPath(a, b, i, kind) ==
    IF kind = 0 THEN InputPath(a, b, i)
    ELSE << <<3 * a + 1, i % 2>>,
            <<3 * a + 1, (i % 2) + (LengthThreshold \div 5)>>,
            <<3 * b - 1, i % 2>> >>

ArgGraph(s, kinds) ==
    [i \in DOMAIN s |->
        [u |-> s[i][1], v |-> s[i][2],
         key |-> Cardinality({j \in 1..(i - 1) : s[j] = s[i]}),
         path |-> ArgPath(s[i][1], s[i][2], i, kinds[i])]]

\* A faulty variant of copy, to see that the properties tell it apart.
CopyByReference(G) == [graph |-> G, aliased |-> TRUE]

\* graph.copy(): a new graph with new attribute dictionaries; what is
\* written on the copy does not show on the original.
copy(G) == [graph |-> G, aliased |-> FALSE]

\* add_length: every edge gets the arc length of its path.
add_length(E) ==
    [i \in DOMAIN E |->
        [u |-> E[i].u, v |-> E[i].v, key |-> E[i].key, path |-> E[i].path,
         length |-> path_length(E[i].path),
         is_branch |-> IF "is_branch" \in DOMAIN E[i] THEN E[i].is_branch ELSE FALSE]]

\* nx.connected_components: the component of the nodes S.
RECURSIVE component(_, _)
component(E, S) ==
    LET T == S \cup UNION {neighbors(E, n) : n \in S}
    IN IF T = S THEN S ELSE component(E, T)

RECURSIVE SumLengths(_, _)
SumLengths(E, P) ==
    IF P = {} THEN 0
    ELSE LET i == CHOOSE k \in P : TRUE
         IN E[i].length + SumLengths(E, P \ {i})

comp_length(E, n) ==
    SumLengths(E, {i \in DOMAIN E : E[i].u \in component(E, {n})})

\* graph.remove_edge(a, b) without a key removes the edge between a and b that
\* was added last; remove_edges_from skips the pairs the graph has no edge for.
remove_edge_last(E, a, b) ==
    LET P == Between(E, a, b)
    IN IF P = {} THEN E ELSE RemoveAt(E, CHOOSE i \in P : \A j \in P : j <= i)

RECURSIVE remove_edges_from(_, _)
remove_edges_from(E, ebunch) ==
    IF ebunch = <<>> THEN E
    ELSE remove_edges_from(remove_edge_last(E, ebunch[1][1], ebunch[1][2]), Tail(ebunch))

\* A faulty variant of edges_to_remove, to see that the properties tell it apart.
EdgesToRemoveOncePerPair(E, threshold) ==
    LET small == SelectSeq([i \in DOMAIN E |-> i],
                           LAMBDA i : /\ comp_length(E, E[i].u) < threshold
                                      /\ E[i].key = 0)
    IN [k \in DOMAIN small |-> <<E[small[k]].u, E[small[k]].v>>]

\* Lines 552-557: subgraph.edges() gives one (u, v) pair, without the key,
\* for every edge of a component whose lengths sum to less than the threshold.
edges_to_remove(E, threshold) ==
    LET small == SelectSeq([i \in DOMAIN E |-> i],
                           LAMBDA i : comp_length(E, E[i].u) < threshold)
    IN [k \in DOMAIN small |-> <<E[small[k]].u, E[small[k]].v>>]

\* remove_small_graph_components: all the edges of the components whose
\* lengths sum to less than the threshold.
remove_small_graph_components(E, threshold) ==
    remove_edges_from(E, edges_to_remove(E, threshold))

\* remove_small_graph_components as one step.
RemoveSmallGraphComponents ==
    /\ pc = "call" /\ call.fn = "remove_small_graph_components"
    /\ graph' = remove_small_graph_components(graph, call.length_threshold)
    /\ prev_graph' = graph
    /\ pc' = "done"
    /\ last' = Step("remove_small_graph_components", -1, NoTask, 0, FALSE, FALSE, {})
    /\ UNCHANGED <<init_graph, call, nodes_to_visit, added_branches, removed_branches,
                   branch_queue, err>>
    /\ UNCHANGED <<graph_nodes, adj, creation, graph_simple>>

\* remove_small_graph_components(graph, 2 * length_threshold), as adjust_graph
\* calls it, on a graph of any number of components: at most MaxEdges edges
\* (self-loops and parallel edges allowed) on the nodes 0..k-1.
ComponentShapes ==
    {s \in UNION {Shapes(k, <<0, 0>>) : k \in 0..MaxEdges} :
        Used(s) = 0..(Cardinality(Used(s)) - 1)}

InitComp ==
    \E s \in ComponentShapes :
        \E len \in InputLengths(s) :
            InitState(FlaggedGraph(s, len),
                      Call("remove_small_graph_components", 2 * LengthThreshold, -1, FALSE))

NextComp == RemoveSmallGraphComponents

SpecComp == InitComp /\ [][NextComp]_vars


\* A faulty variant of zero_degree_nodes, to see that the properties tell it apart.
ZeroDegreeNodesAlways(E, N, keep_nodes) == {n \in N : degree(E, n) = 0}

\* Lines 1078-1082: the nodes removed at the end.
zero_degree_nodes(E, N, keep_nodes) ==
    IF keep_nodes THEN {} ELSE {n \in N : degree(E, n) = 0}

\* A faulty variant of NodesAfterRemoval, to see that the properties tell it apart.
NodesAfterRemovalButLeaves(E, N, keep_nodes) ==
    IF keep_nodes THEN N ELSE {n \in N : degree(E, n) > 1}

NodesAfterRemoval(E, N, keep_nodes) == N \ zero_degree_nodes(E, N, keep_nodes)

\* The nodes of N in the graph's node order (ascending, as they were added).
RECURSIVE NodeOrder(_)
NodeOrder(N) ==
    IF N = {} THEN <<>>
    ELSE LET n == CHOOSE m \in N : \A k \in N : m <= k
         IN <<n>> \o NodeOrder(N \ {n})

\* A faulty variant of NewLabel, to see that the properties tell it apart.
NewLabelKept(order, n) == n

\* convert_node_labels_to_integers(ordering='default'): the i-th node of the
\* graph becomes i - 1 ...
NewLabel(order, n) == (CHOOSE i \in DOMAIN order : order[i] = n) - 1

\* ... and the edges are added to the new graph in the order of graph.edges.
Relabel(E, order) ==
    LET ord == EdgesInOrder(E, DOMAIN E)
    IN [k \in DOMAIN ord |->
           [E[ord[k]] EXCEPT !.u = NewLabel(order, E[ord[k]].u),
                             !.v = NewLabel(order, E[ord[k]].v)]]

\* The values of (keep_nodes, collapse_indices); collapse_indices has no
\* effect with keep_nodes = True.  The two are first read on line 1078, and
\* the model draws them there.
Flags == {<<FALSE, TRUE>>, <<FALSE, FALSE>>, <<TRUE, TRUE>>}

\* Lines 1084-1085: whether the nodes are relabelled.
Collapses(a) == ~a.keep_nodes /\ a.collapse_indices

\* Lines 1068-1074: copy, add_length, add_branch_info, remove_small_mul_all,
\* and the work list of remove_degree_two_nodes.
AdjStart ==
    /\ pc = "call" /\ call.fn = "adjust_graph"
    /\ adj' = [adj EXCEPT !.aliased = copy(adj.arg).aliased]
    /\ \E E1 \in {add_length(copy(adj.arg).graph)} :
         \E E2 \in {add_branch_info(E1)} :
            graph' = remove_small_mul_all(E2, 2 * call.length_threshold)
    /\ nodes_to_visit' = InitialWorkList(graph', -1)
    /\ graph_nodes' = adj.arg_nodes
    /\ added_branches' = {}
    /\ removed_branches' = {}
    /\ prev_graph' = graph
    /\ pc' = "d2_loop"
    /\ last' = Step("adj_start", -1, NoTask, 0, FALSE, FALSE, {})
    /\ UNCHANGED <<init_graph, call, branch_queue, err, creation, graph_simple>>

\* Line 1075: remove_degree_two_nodes has returned; remove_branches builds its
\* queue (lines 944-952).
AdjBranches ==
    /\ pc = "d2_loop" /\ call.fn = "adjust_graph"
    /\ nodes_to_visit = <<>>
    /\ branch_queue' = InitialQueue(graph, call.length_threshold)
    /\ pc' = "rb_loop"
    /\ prev_graph' = graph
    /\ last' = Step("rb_start", -1, NoTask, 0, FALSE, FALSE, {})
    /\ UNCHANGED <<graph, init_graph, call, nodes_to_visit, added_branches,
                   removed_branches, err, graph_nodes, adj, creation, graph_simple>>

\* Lines 1076-1087: remove_branches has returned; remove_small_graph_components,
\* the removal of the zero-degree nodes, the relabelling, the return.
AdjFinish ==
    /\ pc = "rb_loop" /\ call.fn = "adjust_graph"
    /\ branch_queue = <<>>
    /\ prev_graph' = remove_small_graph_components(graph, 2 * call.length_threshold)
    /\ \E f \in IF adj.run = 1 THEN Flags ELSE {<<adj.keep_nodes, adj.collapse_indices>>} :
         \E N \in {NodesAfterRemoval(prev_graph', graph_nodes, f[1])} :
            adj' = [adj EXCEPT
                      !.keep_nodes = f[1], !.collapse_indices = f[2],
                      !.kept = N,
                      !.old_id = IF ~f[1] /\ f[2] THEN NodeOrder(N) ELSE <<>>]
    /\ IF Collapses(adj')
       THEN /\ graph' = Relabel(prev_graph', adj'.old_id)
            /\ graph_nodes' = {NewLabel(adj'.old_id, n) : n \in adj'.kept}
       ELSE /\ graph' = prev_graph'
            /\ graph_nodes' = adj'.kept
    /\ pc' = "done"
    /\ last' = Step("adj_return", -1, NoTask, 0, FALSE, FALSE, {})
    /\ UNCHANGED <<init_graph, call, nodes_to_visit, added_branches, removed_branches,
                   branch_queue, err, creation, graph_simple>>

\* adjust_graph is called again, with the same arguments, on the graph the
\* first call returned.
AdjAgain ==
    /\ pc = "done" /\ call.fn = "adjust_graph" /\ adj.run = 1
    /\ adj' = [adj EXCEPT !.run = 2, !.arg = graph, !.arg_nodes = graph_nodes,
                          !.old_id = <<>>, !.kept = {}]
    /\ init_graph' = graph
    /\ prev_graph' = graph
    /\ pc' = "call"
    /\ last' = NoStep
    /\ UNCHANGED <<graph, call, nodes_to_visit, added_branches, removed_branches,
                   branch_queue, err, graph_nodes, creation, graph_simple>>

\* The caller's graph as the caller sees it: its own edges, or, were the
\* adjusted graph the same object, the adjusted edges.
ArgEdges == IF adj.aliased /\ pc # "call" THEN graph ELSE adj.arg

ArgNodes == IF adj.aliased /\ pc # "call" THEN graph_nodes ELSE adj.arg_nodes

InitAdj ==
    \E s \in InputShapes :
        \E kinds \in [DOMAIN s -> PathKinds] :
            /\ graph = ArgGraph(s, kinds)
            /\ init_graph = ArgGraph(s, kinds)
            /\ prev_graph = ArgGraph(s, kinds)
            /\ graph_nodes = Nodes
            /\ creation = NoCreation
            /\ graph_simple = NoSimple
            /\ adj = [NoAdj EXCEPT !.run = 1, !.arg = ArgGraph(s, kinds),
                                   !.arg_nodes = Nodes]
            /\ call = Call("adjust_graph", LengthThreshold, -1, FALSE)
            /\ pc = "call"
            /\ nodes_to_visit = <<>>
            /\ added_branches = {}
            /\ removed_branches = {}
            /\ branch_queue = <<>>
            /\ err = "none"
            /\ last = NoStep

NextAdj == AdjStart \/ D2Iter \/ AdjBranches \/ RBPop \/ RBApply \/ AdjFinish \/ AdjAgain

SpecAdj == InitAdj /\ [][NextAdj]_vars

---------------------------------------------------------------------------
\* Properties of adjust_graph.

\* Endpoints, key and length of every edge.
EdgeSignature(E) == {<<E[i].u, E[i].v, E[i].key, E[i].length>> : i \in DOMAIN E}

AdjReturned == pc = "done" /\ call.fn = "adjust_graph"

\* C12: adjust_graph with the same threshold on a graph adjust_graph returned
\* removes nothing more: the second result has the nodes of its input, as many
\* edges, and the same endpoints and lengths.
C12_AdjustIdempotent ==
    AdjReturned /\ adj.run = 2 =>
        /\ graph_nodes = adj.arg_nodes
        /\ Len(graph) = Len(adj.arg)
        /\ EdgeSignature(graph) = EdgeSignature(adj.arg)

\* C12 witness: the second call returned a graph of two edges or more, one of
\* them made by the first call from two edges of a degree-two node.
C12_Witness ==
    /\ AdjReturned /\ adj.run = 2
    /\ Len(graph) >= 2
    /\ \E i \in DOMAIN graph : Len(graph[i].path) > 3

\* C13: adjust_graph leaves its argument as it was: the same nodes, the same
\* edges with the same keys, every edge with the same path and the same
\* attributes as before the call.
C13_ArgumentUntouched ==
    call.fn = "adjust_graph" =>
        ArgEdges = init_graph /\ ArgNodes = adj.arg_nodes

\* C13 witness: the first call returned a graph with fewer edges than its
\* argument and with a merged path.
C13_Witness ==
    /\ AdjReturned /\ adj.run = 1
    /\ Len(graph) < Len(init_graph)
    /\ \E i \in DOMAIN graph : Len(graph[i].path) > 3

\* C14: no simplification step removes a node: the node set is the input's
\* until the last step of adjust_graph, and with keep_nodes = True the
\* returned graph has exactly the nodes of the input.
C14_NodesKept ==
    call.fn = "adjust_graph" =>
        /\ pc \in {"d2_loop", "rb_loop", "rb_d2"} => graph_nodes = adj.arg_nodes
        /\ pc = "done" /\ adj.keep_nodes => graph_nodes = adj.arg_nodes

\* C14 witness: with keep_nodes = True the call returned a graph in which a
\* node that had an edge in the input has none.
C14_Witness ==
    /\ AdjReturned /\ adj.run = 1 /\ adj.keep_nodes
    /\ \E n \in graph_nodes : degree(graph, n) = 0 /\ degree(init_graph, n) > 0

\* The ids the nodes of the returned graph had before the relabelling.
ReturnedIds ==
    IF Collapses(adj) THEN {adj.old_id[n + 1] : n \in graph_nodes} ELSE graph_nodes

\* C15: with keep_nodes = False the graph adjust_graph returns has no node of
\* degree 0 and has every node that had an edge after the four steps.
C15_ZeroDegreeDropped ==
    AdjReturned /\ ~adj.keep_nodes =>
        /\ \A n \in graph_nodes : degree(graph, n) > 0
        /\ ReturnedIds = {n \in adj.arg_nodes : degree(prev_graph, n) > 0}

\* C15 witness: a call with keep_nodes = False returned a graph with edges,
\* without a node that had an edge in the input.
C15_Witness ==
    /\ AdjReturned /\ adj.run = 1 /\ ~adj.keep_nodes
    /\ graph # <<>>
    /\ \E n \in adj.arg_nodes : n \notin ReturnedIds /\ degree(init_graph, n) > 0

\* C16: with keep_nodes = False and collapse_indices = True the N nodes of the
\* returned graph are 0..N-1, each has its former id in old_id, the old ids
\* are pairwise distinct, and every edge joins the images of its former ends.
C16_DenseLabels ==
    AdjReturned /\ Collapses(adj) =>
        /\ graph_nodes = 0..(Len(adj.old_id) - 1)
        /\ \A i \in DOMAIN adj.old_id : \A j \in DOMAIN adj.old_id :
              adj.old_id[i] = adj.old_id[j] => i = j
        /\ Len(graph) = Len(prev_graph)
        /\ {<<adj.old_id[graph[i].u + 1], adj.old_id[graph[i].v + 1], graph[i].key,
              graph[i].length>> : i \in DOMAIN graph} = EdgeSignature(prev_graph)

\* C16 witness: the relabelling changed the id of a node with an edge.
C16_Witness ==
    /\ AdjReturned /\ adj.run = 1 /\ Collapses(adj)
    /\ \E i \in DOMAIN graph : adj.old_id[graph[i].u + 1] # graph[i].u

---------------------------------------------------------------------------
\* Termination of remove_degree_two_nodes.

\* How often n is in the list s.
Occurrences(s, n) == Cardinality({i \in DOMAIN s : s[i] = n})

\* The nodes that have an edge: every iteration of the loop takes one away,
\* so the loop runs at most as many times as the graph has nodes.
ActiveNodes(E) == {n \in Nodes : degree(E, n) > 0}

\* C17: remove_degree_two_nodes terminates.  No iteration raises; every
\* iteration takes a node out of the work list and eliminates it, leaving it
\* with degree 0, so that the number of nodes with an edge goes down with
\* every iteration; an iteration puts a node on the list only when the node's
\* degree has just dropped from 3 to 2; and with the list empty the function
\* returns.
C17_D2Terminates ==
    /\ [](err = "none")
    /\ [](last.step = "d2_iter" =>
             /\ degree(graph, last.node) = 0
             /\ ~InList(nodes_to_visit, last.node))
    /\ [][pc = "d2_loop" /\ nodes_to_visit # <<>> =>
             /\ pc' = "d2_loop"
             /\ Cardinality(ActiveNodes(graph')) < Cardinality(ActiveNodes(graph))
             /\ \A n \in Nodes :
                   Occurrences(nodes_to_visit', n) > Occurrences(nodes_to_visit, n) =>
                       degree(graph, n) = 3 /\ degree(graph', n) = 2]_vars
    /\ [][pc = "d2_loop" /\ nodes_to_visit = <<>> => pc' = "done"]_vars

\* C17 witness: an iteration has put a node on the work list.
C17_Witness ==
    /\ pc = "d2_loop" /\ last.step = "d2_iter"
    /\ \E n \in Nodes :
          /\ InList(nodes_to_visit, n)
          /\ degree(prev_graph, n) = 3 /\ degree(graph, n) = 2

---------------------------------------------------------------------------
\* A degree-two node whose only edge is a self-loop, given to
\* two_neighbors_data and, as initial_node, to remove_degree_two_nodes.

\* two_neighbors_data(graph, node): node_type is None and is looked up.  The
\* 'loop' type raises ValueError; an unidentified type leaves nei1 unbound;
\* a 'multiple' node without exactly two edges fails to unpack the keys.
TwoNeighborsData ==
    /\ pc = "call" /\ call.fn = "two_neighbors_data"
    /\ LET node_type == degree_two_node_type(graph, call.initial_node)
           d == two_neighbors_data(graph, call.initial_node, node_type)
       IN /\ err' = IF d.ok THEN "none"
                    ELSE IF node_type = "unidentified" THEN "UnboundLocalError"
                    ELSE "ValueError"
          /\ pc' = IF d.ok THEN "done" ELSE "raised"
    /\ prev_graph' = graph
    /\ last' = Step("two_neighbors_data", call.initial_node, NoTask, 0, FALSE, FALSE, {})
    /\ UNCHANGED <<graph, init_graph, call, nodes_to_visit, added_branches,
                   removed_branches, branch_queue, graph_nodes, adj, creation, graph_simple>>

LoopNode == NumNodes - 1

\* A connected graph on nodes below LoopNode, and one self-loop at LoopNode.
LoopShapes == {Append(s, <<LoopNode, LoopNode>>) : s \in {t \in InputShapes : LoopNode \notin Used(t)}}

InitLoop ==
    \E s \in LoopShapes :
        \E len \in InputLengths(s) :
            \E c \in {Call("two_neighbors_data", LengthThreshold, LoopNode, FALSE),
                      Call("remove_degree_two_nodes", LengthThreshold, LoopNode, FALSE),
                      Call("remove_degree_two_nodes", LengthThreshold, LoopNode, TRUE)} :
                InitState(FlaggedGraph(s, len), c)

NextLoop == TwoNeighborsData \/ D2Start \/ D2Return

SpecLoop == InitLoop /\ [][NextLoop]_vars

\* C18: eliminating a degree-two node whose only edge is a self-loop raises an
\* error at the point of detection and leaves the graph unchanged, both for
\* two_neighbors_data on the node and for remove_degree_two_nodes with the
\* node as initial_node.
C18_LoopAlwaysRaises ==
    pc \in {"done", "raised"} =>
        pc = "raised" /\ err = "ValueError" /\ graph = init_graph

\* C18, as the code has it: two_neighbors_data on such a node raises
\* ValueError and leaves the graph unchanged; remove_degree_two_nodes with
\* such a node as initial_node raises nothing: its work list stays empty and
\* it returns with the graph unchanged and no branch changes.
C18_LoopRaisesOrSkipped ==
    /\ call.fn = "two_neighbors_data" /\ pc # "call" =>
          pc = "raised" /\ err = "ValueError" /\ graph = init_graph
    /\ call.fn = "remove_degree_two_nodes" =>
          /\ err = "none" /\ pc \in {"call", "d2_loop", "done"}
          /\ graph = init_graph
          /\ nodes_to_visit = <<>>
          /\ added_branches = {} /\ removed_branches = {}

\* C18 witness: remove_degree_two_nodes has returned from a call whose
\* initial_node is a loop node, in a graph with other edges.
C18_Witness ==
    /\ pc = "done" /\ call.fn = "remove_degree_two_nodes"
    /\ degree(graph, call.initial_node) = 2
    /\ degree_two_node_type(graph, call.initial_node) = "loop"
    /\ Len(graph) >= 2

---------------------------------------------------------------------------
\* create_graph (creation.py), on two-dimensional images.

ImgRows == 2
ImgCols == 3

\* The values a pixel of the input may have: 0, 1 and one other value.
Values == {0, 1, 2}

Pixels == (0..(ImgRows - 1)) \X (0..(ImgCols - 1))

\* Image.unique(): the distinct values of the image, in ascending order.
RECURSIVE Ascending(_)
Ascending(V) ==
    IF V = {} THEN <<>>
    ELSE LET v == CHOOSE x \in V : \A y \in V : x <= y
         IN <<v>> \o Ascending(V \ {v})

unique(img) == Ascending({img[p] : p \in DOMAIN img})

\* A faulty variant of ValuesAccepted, to see that the properties tell it apart.
ValuesAcceptedIfBothPresent(img_skel) == {0, 1} \subseteq {img_skel[p] : p \in DOMAIN img_skel}

\* Line 606: tuple(img_skel.unique()) != (0, 1) raises.
ValuesAccepted(img_skel) == unique(img_skel) = <<0, 1>>

\* np.pad(img_skel_data, 1): a border of zeros, every pixel moved by (1, 1).
pad(img) ==
    [p \in {<<q[1] + d[1], q[2] + d[2]>> : q \in DOMAIN img, d \in (0..2) \X (0..2)} |->
        IF <<p[1] - 1, p[2] - 1>> \in DOMAIN img THEN img[<<p[1] - 1, p[2] - 1>>] ELSE 0]

Adjacent(p, q) ==
    /\ p # q
    /\ p[1] - q[1] \in {-1, 0, 1}
    /\ p[2] - q[2] \in {-1, 0, 1}

\* Row-major order of pixels, the order of np.nonzero and of ndi.label.
PixelBefore(p, q) == p[1] < q[1] \/ (p[1] = q[1] /\ p[2] < q[2])

RECURSIVE RowMajor(_)
RowMajor(S) ==
    IF S = {} THEN <<>>
    ELSE LET p == CHOOSE x \in S : \A y \in S : x = y \/ PixelBefore(x, y)
         IN <<p>> \o RowMajor(S \ {p})

\* The connected region of S (all neighbours count: structure of ones) that
\* holds the pixels of C.
RECURSIVE Region(_, _)
Region(S, C) ==
    LET D == C \cup {q \in S : \E p \in C : Adjacent(p, q)}
    IN IF D = C THEN C ELSE Region(S, D)

\* ndi.label: the connected regions of S, numbered in row-major order of
\* their first pixel.
RECURSIVE label(_)
label(S) ==
    IF S = {} THEN <<>>
    ELSE LET first == CHOOSE x \in S : \A y \in S : x = y \/ PixelBefore(x, y)
             region == Region(S, {first})
         IN <<region>> \o label(S \ region)

\* util.remove_small_comp(img, 2, structure): the image without its connected
\* regions that are too small.  A region of exactly tam_threshold pixels
\* stays when keep_equal.
remove_small_comp(img, tam_threshold, keep_equal) ==
    LET regions == label({p \in DOMAIN img : img[p] # 0})
        kept == UNION {regions[i] : i \in {j \in DOMAIN regions :
                          \/ Cardinality(regions[j]) > tam_threshold
                          \/ keep_equal /\ Cardinality(regions[j]) = tam_threshold}}
    IN [p \in DOMAIN img |-> IF p \in kept THEN 1 ELSE 0]

\* Lines 622-624: the number of neighbours of every skeleton pixel, -1 on
\* the background.
num_neighbors(img) ==
    [p \in DOMAIN img |->
        Cardinality({q \in DOMAIN img : img[q] = 1 /\ (q = p \/ Adjacent(p, q))}) * img[p] - 1]

\* np.round of sum / n for sum >= 0: halves go to the even neighbour.
RoundMean(sum, n) ==
    LET q == sum \div n
        r == sum % n
    IN IF 2 * r < n THEN q
       ELSE IF 2 * r > n THEN q + 1
       ELSE IF q % 2 = 0 THEN q ELSE q + 1

RECURSIVE SumCoord(_, _)
SumCoord(pixels, k) ==
    IF pixels = <<>> THEN 0 ELSE pixels[1][k] + SumCoord(Tail(pixels), k)

\* InterestPoint.__init__
InterestPoint(pixels_coords, point_type) ==
    [pixels |-> pixels_coords,
     center |-> <<RoundMean(SumCoord(pixels_coords, 1), Len(pixels_coords)),
                  RoundMean(SumCoord(pixels_coords, 2), Len(pixels_coords))>>,
     type |-> point_type,
     ndim |-> 2,
     branches |-> <<>>]

\* point_type is the code of the name: 0 a bifurcation, 1 a termination.
find_interest_points_type(S, point_type) ==
    LET regions == label(S)
    IN [i \in DOMAIN regions |-> InterestPoint(RowMajor(regions[i]), point_type)]

find_interest_points(img_num_neighbors) ==
    find_interest_points_type({p \in DOMAIN img_num_neighbors : img_num_neighbors[p] >= 3}, 0)
    \o find_interest_points_type({p \in DOMAIN img_num_neighbors : img_num_neighbors[p] = 1}, 1)

iterate_neighbors(p) ==
    << <<p[1] - 1, p[2] - 1>>, <<p[1] - 1, p[2]>>, <<p[1] - 1, p[2] + 1>>,
       <<p[1], p[2] - 1>>, <<p[1], p[2] + 1>>,
       <<p[1] + 1, p[2] - 1>>, <<p[1] + 1, p[2]>>, <<p[1] + 1, p[2] + 1>> >>

is_inside(p, grid) == p \in DOMAIN grid

\* InterestPoint.add_branches: the set of the neighbours with two neighbours.
BranchPixels(ip, img_num_neighbors) ==
    {neighbor \in UNION {{iterate_neighbors(ip.pixels[i])[k] : k \in 1..8} : i \in DOMAIN ip.pixels} :
        is_inside(neighbor, img_num_neighbors) /\ img_num_neighbors[neighbor] = 2}

\* track_branch, lines 343-346: the last neighbour of first_point with two
\* neighbours, <<>> for None.
second_point(first_point, img_num_neighbors) ==
    LET neis == iterate_neighbors(first_point)
        found == {k \in 1..8 : img_num_neighbors[neis[k]] = 2}
    IN IF found = {} THEN <<>>
       ELSE <<neis[CHOOSE k \in found : \A j \in found : j <= k]>>

\* A faulty variant of Walk, to see that the properties tell it apart.
RECURSIVE WalkMayTurnBack(_, _, _, _)
WalkMayTurnBack(path, prev_point, curr_point, img_num_neighbors) ==
    LET neis == iterate_neighbors(curr_point)
        found == {k \in 1..8 : img_num_neighbors[neis[k]] = 2}
    IN IF found = {} THEN [path |-> path, ends |-> TRUE]
       ELSE IF Len(path) > Cardinality(DOMAIN img_num_neighbors)
            THEN [path |-> path, ends |-> FALSE]
       ELSE LET neighbor == neis[CHOOSE k \in found : \A j \in found : k <= j]
            IN WalkMayTurnBack(Append(path, neighbor), curr_point, neighbor,
                               img_num_neighbors)

\* track_branch, lines 354-364: the walk takes the first neighbour with two
\* neighbours that is not the previous pixel.  The walk of a path longer
\* than the grid has pixels never ends.
RECURSIVE Walk(_, _, _, _)
Walk(path, prev_point, curr_point, img_num_neighbors) ==
    LET neis == iterate_neighbors(curr_point)
        found == {k \in 1..8 : img_num_neighbors[neis[k]] = 2 /\ neis[k] # prev_point}
    IN IF found = {} THEN [path |-> path, ends |-> TRUE]
       ELSE IF Len(path) > Cardinality(DOMAIN img_num_neighbors)
            THEN [path |-> path, ends |-> FALSE]
       ELSE LET neighbor == neis[CHOOSE k \in found : \A j \in found : k <= j]
            IN Walk(Append(path, neighbor), curr_point, neighbor, img_num_neighbors)

\* interest_point.branches[branch_index], line 343: an index below zero counts
\* from the end of the list; one below -len raises IndexError, which
\* track_branch reports in the field raised.
list_item(list, index) ==
    IF index >= 0 THEN list[index + 1] ELSE list[Len(list) + index + 1]

\* A faulty variant of track_branch, to see that the properties tell it
\* apart: an index past the last branch tracks the last branch.
TrackBranchClamped(interest_point, branch_index, img_num_neighbors) ==
    IF interest_point.branches = <<>>
    THEN [path |-> <<>>, ends |-> TRUE, raised |-> FALSE]
    ELSE LET first_point ==
                 interest_point.branches[IF branch_index >= Len(interest_point.branches)
                                         THEN Len(interest_point.branches)
                                         ELSE branch_index + 1]
             second == second_point(first_point, img_num_neighbors)
         IN IF second = <<>>
            THEN [path |-> <<first_point>>, ends |-> TRUE, raised |-> FALSE]
            ELSE LET walked == Walk(<<first_point, second[1]>>, first_point, second[1],
                                    img_num_neighbors)
                 IN [path |-> walked.path, ends |-> walked.ends, raised |-> FALSE]

\* track_branch, lines 339-366.
track_branch(interest_point, branch_index, img_num_neighbors) ==
    IF Len(interest_point.branches) <= branch_index
    THEN [path |-> <<>>, ends |-> TRUE, raised |-> FALSE]
    ELSE IF branch_index < 0 - Len(interest_point.branches)
    THEN [path |-> <<>>, ends |-> TRUE, raised |-> TRUE]
    ELSE LET first_point == list_item(interest_point.branches, branch_index)
             second == second_point(first_point, img_num_neighbors)
         IN IF second = <<>>
            THEN [path |-> <<first_point>>, ends |-> TRUE, raised |-> FALSE]
            ELSE LET walked == Walk(<<first_point, second[1]>>, first_point, second[1],
                                    img_num_neighbors)
                 IN [path |-> walked.path, ends |-> walked.ends, raised |-> FALSE]

\* A faulty variant of branch_map, to see that the properties tell it apart:
\* a pixel that is no branch of any point is given to the first point.
BranchMapWithDefault(ips, branch) ==
    IF \E i \in 0..(Len(ips) - 1) : InList(ips[i + 1].branches, branch)
    THEN {i \in 0..(Len(ips) - 1) : InList(ips[i + 1].branches, branch)}
    ELSE {0}

\* BranchMap.get_ip_ids: the indices of the points that have the branch.
branch_map(ips, branch) ==
    {i \in 0..(Len(ips) - 1) : InList(ips[i + 1].branches, branch)}

\* A faulty variant of SecondEndpoint, to see that the properties tell it apart.
SecondEndpointFirst(ids, ip1_idx) == ids[1]

\* track_branches, lines 427-439: ids is list(branch_map[path[-1]]).
SecondEndpoint(ids, ip1_idx) ==
    IF Len(ids) = 2
    THEN IF ids[1] = ip1_idx THEN ids[2] ELSE ids[1]
    ELSE ids[1]

\* remove_isolated_points
EdgeEnds(edges) == {edges[i][1] : i \in DOMAIN edges} \cup {edges[i][2] : i \in DOMAIN edges}

idx_remap(edges, idx) ==
    IF idx \in EdgeEnds(edges) THEN Cardinality({n \in EdgeEnds(edges) : n < idx}) ELSE -1

\* Line 486: [edge[0] for edge in edges] + [edge[1] for edge in edges]
EndsList(edges) ==
    [i \in DOMAIN edges |-> edges[i][1]] \o [i \in DOMAIN edges |-> edges[i][2]]

\* The set CPython builds of a list of small non-negative ints, and the order
\* in which it is iterated.  The keys go, in list order, into a table of
\* SetSlots slots: key k into the first free slot of k % SetSlots,
\* Probe(k % SetSlots), ...  The iteration reads the table in slot order.
\* Once 5 * fill reaches 3 * (SetSlots - 1) the table is rebuilt with 32 slots,
\* where the keys below 32 are in ascending order.
SetSlots == 8

Probe(i) == (5 * i + 1) % SetSlots

RECURSIVE FreeSlot(_, _)
FreeSlot(table, i) == IF table[i] = -1 THEN i ELSE FreeSlot(table, Probe(i))

SetAdd(table, k) ==
    IF \E i \in DOMAIN table : table[i] = k THEN table
    ELSE [table EXCEPT ![FreeSlot(table, k % SetSlots)] = k]

RECURSIVE SetTable(_, _)
SetTable(table, list) ==
    IF list = <<>> THEN table ELSE SetTable(SetAdd(table, list[1]), Tail(list))

SetOrder(list) ==
    LET keys == {list[i] : i \in DOMAIN list}
    IN IF 5 * Cardinality(keys) >= 3 * (SetSlots - 1) THEN Ascending(keys)
       ELSE LET table == SetTable([i \in 0..(SetSlots - 1) |-> -1], list)
                F[i \in (-1)..(SetSlots - 1)] ==
                    IF i = -1 THEN <<>>
                    ELSE IF table[i] = -1 THEN F[i - 1] ELSE Append(F[i - 1], table[i])
            IN F[SetSlots - 1]

\* Lines 484-509: the new list of points follows the iteration order of the
\* set nodes, the new indices of the edges follow idx_remap.
remove_isolated_points(ips, edges) ==
    LET nodes == SetOrder(EndsList(edges))
    IN [ips |-> [k \in DOMAIN nodes |-> ips[nodes[k] + 1]],
        edges |-> [i \in DOMAIN edges |->
                     <<idx_remap(edges, edges[i][1]), idx_remap(edges, edges[i][2]),
                       edges[i][3]>>]]

\* A faulty variant of remove_single_pixel_self_edges, to see that the
\* properties tell it apart.
RemoveEverySelfEdge(edges) ==
    SelectSeq(edges, LAMBDA edge : edge[1] # edge[2])

remove_single_pixel_self_edges(edges) ==
    SelectSeq(edges, LAMBDA edge : edge[1] # edge[2] \/ Len(edge[3]) > 1)

\* unpad_coords
sub_1(pixel) == <<pixel[1] - 1, pixel[2] - 1>>

unpad_ips(ips) ==
    [k \in DOMAIN ips |->
        [ips[k] EXCEPT !.pixels = [i \in DOMAIN ips[k].pixels |-> sub_1(ips[k].pixels[i])],
                       !.center = sub_1(ips[k].center),
                       !.branches = [i \in DOMAIN ips[k].branches |-> sub_1(ips[k].branches[i])]]]

unpad_edges(edges) ==
    [i \in DOMAIN edges |->
        <<edges[i][1], edges[i][2], [j \in DOMAIN edges[i][3] |-> sub_1(edges[i][3][j])]>>]

\* to_networkx: the edges in the order they are added, each with its key.
to_networkx(ips, edges) ==
    [i \in DOMAIN edges |->
        [u |-> Min(edges[i][1], edges[i][2]), v |-> Max(edges[i][1], edges[i][2]),
         key |-> Cardinality({j \in 1..(i - 1) :
                     {edges[j][1], edges[j][2]} = {edges[i][1], edges[i][2]}}),
         path |-> edges[i][3]]]

\* The position of the loops of track_branches: the first branch at or
\* after branch branch_idx of point ip1_idx, <<Len(ips), 0>> past the last.
RECURSIVE NextBranch(_, _, _)
NextBranch(ips, ip1_idx, branch_idx) ==
    IF ip1_idx >= Len(ips) THEN <<Len(ips), 0>>
    ELSE IF branch_idx < Len(ips[ip1_idx + 1].branches) THEN <<ip1_idx, branch_idx>>
    ELSE NextBranch(ips, ip1_idx + 1, 0)

\* Lines 606-607.
CreateCheck ==
    /\ pc = "call" /\ call.fn = "create_graph"
    /\ IF ValuesAccepted(creation.img_skel)
       THEN pc' = "prepare" /\ err' = err
       ELSE pc' = "raised" /\ err' = "ValueError"
    /\ UNCHANGED <<graph, init_graph, prev_graph, call, nodes_to_visit, added_branches,
                   removed_branches, branch_queue, last, graph_nodes, adj, creation, graph_simple>>

\* Lines 609-628: padding, remove_small_comp, the neighbour counts and
\* find_interest_points.
CreatePrepare ==
    /\ pc = "prepare"
    /\ \E keep_equal \in BOOLEAN :
         \E img_skel_data_pad \in {remove_small_comp(pad(creation.img_skel), 2, keep_equal)} :
           \E nn \in {num_neighbors(img_skel_data_pad)} :
           \E found \in {find_interest_points(nn)} :
              /\ creation' = [creation EXCEPT !.img_num_neighbors = nn, !.ips = found,
                                              !.ip1_idx = 0, !.branch_idx = 0]
              /\ pc' = IF found = <<>> THEN "finish" ELSE "branches"
    /\ UNCHANGED <<graph, init_graph, prev_graph, call, nodes_to_visit, added_branches,
                   removed_branches, branch_queue, err, last, graph_nodes, adj, graph_simple>>

\* Line 630, add_branches_to_ips: one point per step; the branches are listed
\* in the iteration order of a set.  After the last point track_branches
\* starts.
CreateAddBranches ==
    /\ pc = "branches"
    /\ \E order \in Orderings(BranchPixels(creation.ips[creation.ip1_idx + 1],
                                           creation.img_num_neighbors)) :
         \E new_ips \in {[creation.ips EXCEPT ![creation.ip1_idx + 1].branches = order]} :
            IF creation.ip1_idx + 1 < Len(new_ips)
            THEN /\ creation' = [creation EXCEPT !.ips = new_ips, !.ip1_idx = @ + 1]
                 /\ pc' = "branches"
            ELSE \E pos \in {NextBranch(new_ips, 0, 0)} :
                    /\ creation' = [creation EXCEPT !.ips = new_ips, !.ip1_idx = pos[1],
                                                    !.branch_idx = pos[2]]
                    /\ pc' = IF pos[1] = Len(new_ips) THEN "finish" ELSE "track"
    /\ UNCHANGED <<graph, init_graph, prev_graph, call, nodes_to_visit, added_branches,
                   removed_branches, branch_queue, err, last, graph_nodes, adj, graph_simple>>

\* A faulty variant of CreateTrack, to see that the properties tell it apart:
\* the last pixel of a path is not added to visited_branches.
CreateTrackForgetful ==
    /\ pc = "track"
    /\ LET ip == creation.ips[creation.ip1_idx + 1]
           branch == ip.branches[creation.branch_idx + 1]
           pos == NextBranch(creation.ips, creation.ip1_idx, creation.branch_idx + 1)
           after == IF pos[1] = Len(creation.ips) THEN "finish" ELSE "track"
       IN IF branch \in creation.visited_branches
          THEN /\ creation' = [creation EXCEPT !.ip1_idx = pos[1], !.branch_idx = pos[2]]
               /\ pc' = after /\ err' = err
          ELSE \E t \in {track_branch(ip, creation.branch_idx, creation.img_num_neighbors)} :
                 IF ~t.ends
                 THEN pc' = "hung" /\ err' = err /\ creation' = creation
                 ELSE \E ids \in {branch_map(creation.ips, t.path[Len(t.path)])} :
                        IF ids = {}
                        THEN /\ pc' = "raised" /\ err' = "KeyError"
                             /\ creation' = [creation EXCEPT !.visited_branches =
                                                @ \cup {branch, t.path[Len(t.path)]}]
                        ELSE \E ip2_idx \in Orderings(ids) :
                               /\ creation' =
                                     [creation EXCEPT
                                        !.visited_branches = @ \cup {branch},
                                        !.edges = Append(@, <<creation.ip1_idx,
                                                      SecondEndpoint(ip2_idx, creation.ip1_idx),
                                                      t.path>>),
                                        !.ip1_idx = pos[1], !.branch_idx = pos[2]]
                               /\ pc' = after /\ err' = err
    /\ UNCHANGED <<graph, init_graph, prev_graph, call, nodes_to_visit, added_branches,
                   removed_branches, branch_queue, last, graph_nodes, adj, graph_simple>>

\* track_branches, lines 422-440: one branch of one point per step.
CreateTrack ==
    /\ pc = "track"
    /\ LET ip == creation.ips[creation.ip1_idx + 1]
           branch == ip.branches[creation.branch_idx + 1]
           pos == NextBranch(creation.ips, creation.ip1_idx, creation.branch_idx + 1)
           after == IF pos[1] = Len(creation.ips) THEN "finish" ELSE "track"
       IN IF branch \in creation.visited_branches
          THEN /\ creation' = [creation EXCEPT !.ip1_idx = pos[1], !.branch_idx = pos[2]]
               /\ pc' = after /\ err' = err
          ELSE \E t \in {track_branch(ip, creation.branch_idx, creation.img_num_neighbors)} :
                 IF ~t.ends
                 THEN pc' = "hung" /\ err' = err /\ creation' = creation
                 ELSE \E ids \in {branch_map(creation.ips, t.path[Len(t.path)])} :
                        IF ids = {}
                        THEN /\ pc' = "raised" /\ err' = "KeyError"
                             /\ creation' = [creation EXCEPT !.visited_branches =
                                                @ \cup {branch, t.path[Len(t.path)]}]
                        ELSE \E ip2_idx \in Orderings(ids) :
                               /\ creation' =
                                     [creation EXCEPT
                                        !.visited_branches = @ \cup {branch, t.path[Len(t.path)]},
                                        !.edges = Append(@, <<creation.ip1_idx,
                                                      SecondEndpoint(ip2_idx, creation.ip1_idx),
                                                      t.path>>),
                                        !.ip1_idx = pos[1], !.branch_idx = pos[2]]
                               /\ pc' = after /\ err' = err
    /\ UNCHANGED <<graph, init_graph, prev_graph, call, nodes_to_visit, added_branches,
                   removed_branches, branch_queue, last, graph_nodes, adj, graph_simple>>

\* Lines 634-643: remove_isolated_points, remove_single_pixel_self_edges,
\* unpad_coords and to_networkx.
CreateFinish ==
    /\ pc = "finish"
    /\ \E r \in {remove_isolated_points(creation.ips, creation.edges)} :
         \E edges \in {unpad_edges(remove_single_pixel_self_edges(r.edges))} :
            /\ creation' = [creation EXCEPT !.ips = unpad_ips(r.ips), !.edges = edges]
            /\ graph' = to_networkx(r.ips, edges)
            /\ graph_nodes' = 0..(Len(r.ips) - 1)
    /\ pc' = "done"
    /\ UNCHANGED <<init_graph, prev_graph, call, nodes_to_visit, added_branches,
                   removed_branches, branch_queue, err, last, adj, graph_simple>>

InitCreate ==
    \E img_skel \in [Pixels -> Values] :
        /\ creation = [NoCreation EXCEPT !.img_skel = img_skel]
        /\ graph_simple = NoSimple
        /\ graph = <<>>
        /\ init_graph = <<>>
        /\ prev_graph = <<>>
        /\ graph_nodes = {}
        /\ adj = NoAdj
        /\ call = Call("create_graph", 0, -1, FALSE)
        /\ pc = "call"
        /\ nodes_to_visit = <<>>
        /\ added_branches = {}
        /\ removed_branches = {}
        /\ branch_queue = <<>>
        /\ err = "none"
        /\ last = NoStep

NextCreate == CreateCheck \/ CreatePrepare \/ CreateAddBranches \/ CreateTrack \/ CreateFinish

SpecCreate == InitCreate /\ [][NextCreate]_vars

\* create_graph on skeleton images: SkelRows x SkelCols images of zeros and
\* ones with at least one and at most MaxSkelPixels ones.
SkelRows == 3
SkelCols == 4
MaxSkelPixels == 6

SkelPixels == (0..(SkelRows - 1)) \X (0..(SkelCols - 1))

InitSkeleton ==
    \E ones \in SUBSET SkelPixels :
        /\ ones # {} /\ ones # SkelPixels
        /\ Cardinality(ones) <= MaxSkelPixels
        /\ creation = [NoCreation EXCEPT
                         !.img_skel = [p \in SkelPixels |-> IF p \in ones THEN 1 ELSE 0]]
        /\ graph_simple = NoSimple
        /\ graph = <<>>
        /\ init_graph = <<>>
        /\ prev_graph = <<>>
        /\ graph_nodes = {}
        /\ adj = NoAdj
        /\ call = Call("create_graph", 0, -1, FALSE)
        /\ pc = "call"
        /\ nodes_to_visit = <<>>
        /\ added_branches = {}
        /\ removed_branches = {}
        /\ branch_queue = <<>>
        /\ err = "none"
        /\ last = NoStep

SpecSkeleton == InitSkeleton /\ [][NextCreate]_vars

\* track_branches called with the neighbour counts of a skeleton and the
\* interest points found in it, or all of them but one: the branches of the
\* others may then end at a pixel that is no branch of any point of the list.
WithoutIp(ips, missing) ==
    [k \in 1..(Len(ips) - 1) |-> IF k < missing THEN ips[k] ELSE ips[k + 1]]

InitTrack ==
    \E ones \in SUBSET SkelPixels :
      \E keep_equal \in BOOLEAN :
        /\ ones # {} /\ ones # SkelPixels
        /\ Cardinality(ones) <= MaxSkelPixels
        /\ \E img_skel \in {[p \in SkelPixels |-> IF p \in ones THEN 1 ELSE 0]} :
           \E nn \in {num_neighbors(remove_small_comp(pad(img_skel), 2, keep_equal))} :
           \E found \in {find_interest_points(nn)} :
           \E all_ips \in {[k \in DOMAIN found |->
                             [found[k] EXCEPT !.branches =
                                CHOOSE order \in Orderings(BranchPixels(found[k], nn)) : TRUE]]} :
           \E missing \in 0..Len(all_ips) :
           \E ips \in {IF missing = 0 THEN all_ips ELSE WithoutIp(all_ips, missing)} :
           \E pos \in {NextBranch(ips, 0, 0)} :
              /\ pos[1] < Len(ips)
              /\ creation = [NoCreation EXCEPT !.img_skel = img_skel,
                                               !.img_num_neighbors = nn, !.ips = ips,
                                               !.ip1_idx = pos[1], !.branch_idx = pos[2]]
        /\ graph_simple = NoSimple
        /\ graph = <<>>
        /\ init_graph = <<>>
        /\ prev_graph = <<>>
        /\ graph_nodes = {}
        /\ adj = NoAdj
        /\ call = Call("track_branches", 0, -1, FALSE)
        /\ pc = "track"
        /\ nodes_to_visit = <<>>
        /\ added_branches = {}
        /\ removed_branches = {}
        /\ branch_queue = <<>>
        /\ err = "none"
        /\ last = NoStep

NextTrack == CreateTrack

SpecTrack == InitTrack /\ [][NextTrack]_vars

\* track_branch called on its own, with an interest point of a skeleton, the
\* neighbour counts and an index as the docstring has it (0, 1, 2, etc), up to
\* one above len.
TrackBranch ==
    /\ pc = "track_branch"
    /\ \E t \in {track_branch(creation.ips[creation.ip1_idx + 1], creation.branch_idx,
                              creation.img_num_neighbors)} :
          IF t.raised
          THEN pc' = "raised" /\ err' = "IndexError" /\ creation' = creation
          ELSE /\ pc' = IF t.ends THEN "returned" ELSE "hung"
               /\ err' = err
               /\ creation' = [creation EXCEPT !.path = t.path]
    /\ UNCHANGED <<graph, init_graph, prev_graph, call, nodes_to_visit, added_branches,
                   removed_branches, branch_queue, last, graph_nodes, adj, graph_simple>>

InitBranch ==
    \E ones \in SUBSET SkelPixels :
      \E keep_equal \in BOOLEAN :
        /\ ones # {} /\ ones # SkelPixels
        /\ Cardinality(ones) <= MaxSkelPixels
        /\ \E img_skel \in {[p \in SkelPixels |-> IF p \in ones THEN 1 ELSE 0]} :
           \E nn \in {num_neighbors(remove_small_comp(pad(img_skel), 2, keep_equal))} :
           \E found \in {find_interest_points(nn)} :
           \E ips \in {[k \in DOMAIN found |->
                         [found[k] EXCEPT !.branches =
                            CHOOSE order \in Orderings(BranchPixels(found[k], nn)) : TRUE]]} :
           \E ip_idx \in 0..(Len(ips) - 1) :
           \E branch_index \in 0..(Len(ips[ip_idx + 1].branches) + 1) :
              creation = [NoCreation EXCEPT !.img_skel = img_skel,
                                            !.img_num_neighbors = nn, !.ips = ips,
                                            !.ip1_idx = ip_idx, !.branch_idx = branch_index]
        /\ graph_simple = NoSimple
        /\ graph = <<>>
        /\ init_graph = <<>>
        /\ prev_graph = <<>>
        /\ graph_nodes = {}
        /\ adj = NoAdj
        /\ call = Call("track_branch", 0, -1, FALSE)
        /\ pc = "track_branch"
        /\ nodes_to_visit = <<>>
        /\ added_branches = {}
        /\ removed_branches = {}
        /\ branch_queue = <<>>
        /\ err = "none"
        /\ last = NoStep

NextBranchCall == TrackBranch

SpecBranch == InitBranch /\ [][NextBranchCall]_vars

\* remove_isolated_points(ips, edges) as one step, on a list of up to MaxIps
\* points, each of one pixel of its own, and up to MaxIpEdges edges between
\* them; the other points are isolated.
MaxIps == 9
MaxIpEdges == 2

IsolatedIps(n) == [k \in 1..n |-> InterestPoint(<< <<k, 0>> >>, 1)]

IsolatedEdges(n) ==
    UNION {[1..k -> {<<a, b, << <<a, b>> >> >> : a \in 0..(n - 1), b \in 0..(n - 1)}] :
              k \in 0..MaxIpEdges}

RemoveIsolatedPoints ==
    /\ pc = "call" /\ call.fn = "remove_isolated_points"
    /\ \E r \in {remove_isolated_points(creation.ips, creation.edges)} :
         creation' = [creation EXCEPT !.ips = r.ips, !.edges = r.edges]
    /\ pc' = "done"
    /\ UNCHANGED <<graph, init_graph, prev_graph, call, nodes_to_visit, added_branches,
                   removed_branches, branch_queue, err, last, graph_nodes, adj,
                   graph_simple>>

InitIsolated ==
    \E n \in 1..MaxIps :
        \E edges \in IsolatedEdges(n) :
            /\ (\A i \in DOMAIN edges : edges[i][1] <= edges[i][2])
            /\ creation = [NoCreation EXCEPT !.ips = IsolatedIps(n), !.edges = edges]
            /\ graph_simple = NoSimple
            /\ graph = <<>>
            /\ init_graph = <<>>
            /\ prev_graph = <<>>
            /\ graph_nodes = {}
            /\ adj = NoAdj
            /\ call = Call("remove_isolated_points", 0, -1, FALSE)
            /\ pc = "call"
            /\ nodes_to_visit = <<>>
            /\ added_branches = {}
            /\ removed_branches = {}
            /\ branch_queue = <<>>
            /\ err = "none"
            /\ last = NoStep

NextIsolated == RemoveIsolatedPoints

SpecIsolated == InitIsolated /\ [][NextIsolated]_vars

\* The input has a skeleton pixel; it has a value that is neither 0 nor 1.
HasSkeleton == \E p \in Pixels : creation.img_skel[p] # 0
HasOtherValue == \E p \in Pixels : creation.img_skel[p] \notin {0, 1}

\* C19: for every input image without a skeleton pixel (all values 0),
\* create_graph returns a graph with zero nodes and zero edges.
C19_EmptyImageEmptyGraph ==
    ~HasSkeleton =>
        /\ pc # "raised" /\ err = "none"
        /\ pc = "done" => graph = <<>> /\ graph_nodes = {}

\* C20: create_graph fails with an input error, before any interest point is
\* detected and with no graph made, whenever the image has a value other
\* than 0 or 1.
C20_OtherValueRejected ==
    HasOtherValue =>
        /\ pc \in {"call", "raised"}
        /\ pc = "raised" <=> err = "ValueError"
        /\ creation.img_num_neighbors = <<>>
        /\ creation.ips = <<>> /\ creation.edges = <<>>
        /\ graph = <<>> /\ graph_nodes = {}

\* C20 witness: an image with the values 0, 1 and another one was rejected.
C20_Witness ==
    /\ pc = "raised" /\ err = "ValueError"
    /\ HasOtherValue
    /\ {0, 1} \subseteq {creation.img_skel[p] : p \in Pixels}

---------------------------------------------------------------------------
\* simplify (adjustment.py, lines 9-109), with use_old_method = False.

Abs(x) == IF x < 0 THEN -x ELSE x

\* skimage.draw.line_nd(start, stop, endpoint=False): ceil(max |stop - start|)
\* points evenly spaced from start towards stop, stop left out, every
\* coordinate rounded with np.round.
line_nd(start, stop) ==
    LET npoints == Max(Abs(stop[1] - start[1]), Abs(stop[2] - start[2]))
    IN [j \in 1..npoints |->
           <<RoundMean(start[1] * npoints + (j - 1) * (stop[1] - start[1]), npoints),
             RoundMean(start[2] * npoints + (j - 1) * (stop[2] - start[2]), npoints)>>]

\* coord[1:] of every coordinate array: the line without its first point.
WithoutStart(line) == IF line = <<>> THEN <<>> ELSE Tail(line)

\* A faulty variant of node1_to_path_line, to see that the properties tell it apart.
Node1ToPathLineAlways(node1, path) == WithoutStart(line_nd(node1.center, path[1]))

\* Lines 83-91.
node1_to_path_line(node1, path) ==
    IF Len(node1.pixels) = 1 THEN <<>>
    ELSE WithoutStart(line_nd(node1.center, path[1]))

\* Lines 94-102.
path_to_node2_line(node2, path) ==
    IF Len(node2.pixels) = 1 THEN <<>>
    ELSE WithoutStart(line_nd(path[Len(path)], node2.center))

\* Line 104.  The node attributes are read from the argument graph.
new_path(arg_nodes, e) ==
    node1_to_path_line(arg_nodes[e.u + 1], e.path)
    \o e.path
    \o path_to_node2_line(arg_nodes[e.v + 1], e.path)

\* Lines 66-72: graph.copy() and the start of the loop over the edges.
SimplifyStart ==
    /\ pc = "call" /\ call.fn = "simplify"
    /\ graph_simple' = [graph_simple EXCEPT !.nodes = graph_simple.arg_nodes,
                                            !.edges = copy(graph).graph,
                                            !.aliased = copy(graph).aliased,
                                            !.edge_idx = 0]
    /\ pc' = "simplify_loop"
    /\ prev_graph' = graph
    /\ last' = Step("simplify_start", -1, NoTask, 0, FALSE, FALSE, {})
    /\ UNCHANGED <<graph, init_graph, call, nodes_to_visit, added_branches,
                   removed_branches, branch_queue, err, graph_nodes, adj, creation>>

\* Lines 73-106: one edge of graph_simple gets its new path.  Every edge is
\* visited once, and the new path of one does not depend on the others.
SimplifyEdge ==
    /\ pc = "simplify_loop"
    /\ graph_simple.edge_idx < Len(graph_simple.edges)
    /\ LET i == graph_simple.edge_idx + 1
       IN \E path \in {new_path(graph_simple.arg_nodes, graph_simple.edges[i])} :
            /\ graph_simple' = [graph_simple EXCEPT !.edges[i].path = path,
                                                    !.edge_idx = i]
            /\ graph' = IF graph_simple.aliased THEN [graph EXCEPT ![i].path = path]
                        ELSE graph
    /\ prev_graph' = graph
    /\ last' = Step("simplify_edge", -1, NoTask, 0, FALSE, FALSE, {})
    /\ UNCHANGED <<init_graph, call, pc, nodes_to_visit, added_branches,
                   removed_branches, branch_queue, err, graph_nodes, adj, creation>>

\* Line 108.
SimplifyReturn ==
    /\ pc = "simplify_loop"
    /\ graph_simple.edge_idx = Len(graph_simple.edges)
    /\ pc' = "done"
    /\ prev_graph' = graph
    /\ last' = Step("simplify_return", -1, NoTask, 0, FALSE, FALSE, {})
    /\ UNCHANGED <<graph, init_graph, call, nodes_to_visit, added_branches,
                   removed_branches, branch_queue, err, graph_nodes, adj, creation,
                   graph_simple>>

\* The graphs simplify is given: the nodes 0 and 1, each a single pixel or a
\* region of several pixels, and one or two edges (parallel edges and
\* self-loops included) whose paths start and end one or more pixels away
\* from the nodes.
Node0Pixels ==
    {<< <<0, 0>> >>,
     << <<0, 0>>, <<0, 1>>, <<1, 0>> >>,
     << <<0, 0>>, <<0, 1>>, <<1, 0>>, <<1, 1>> >>}

Node1Pixels ==
    {<< <<5, 2>> >>,
     << <<5, 2>>, <<5, 3>>, <<6, 2>>, <<6, 3>> >>}

PathPixels == {<<1, 1>>, <<2, 2>>, <<3, 2>>, <<4, 3>>}

SimplifyPaths ==
    {<<p>> : p \in PathPixels} \cup {<<p, q>> : p \in PathPixels, q \in PathPixels}

SimplifyShapes ==
    {s \in Shapes(1, <<0, 0>>) \cup Shapes(2, <<0, 0>>) : Used(s) \subseteq {0, 1}}

\* The graph to_networkx builds: nodes with the attributes of the interest
\* points, edges with a path only.
SimplifyGraph(s, paths) ==
    [i \in DOMAIN s |->
        [u |-> s[i][1], v |-> s[i][2],
         key |-> Cardinality({j \in 1..(i - 1) : s[j] = s[i]}),
         path |-> paths[i]]]

InitSimplify ==
    \E pixels0 \in Node0Pixels, pixels1 \in Node1Pixels :
        \E s \in SimplifyShapes :
            \E paths \in [DOMAIN s -> SimplifyPaths] :
                /\ graph = SimplifyGraph(s, paths)
                /\ init_graph = SimplifyGraph(s, paths)
                /\ prev_graph = SimplifyGraph(s, paths)
                /\ graph_nodes = {0, 1}
                /\ graph_simple = [NoSimple EXCEPT
                                     !.arg_nodes = <<InterestPoint(pixels0, 0),
                                                     InterestPoint(pixels1, 0)>>]
                /\ adj = NoAdj
                /\ creation = NoCreation
                /\ call = Call("simplify", 0, -1, FALSE)
                /\ pc = "call"
                /\ nodes_to_visit = <<>>
                /\ added_branches = {}
                /\ removed_branches = {}
                /\ branch_queue = <<>>
                /\ err = "none"
                /\ last = NoStep

NextSimplify == SimplifyStart \/ SimplifyEdge \/ SimplifyReturn

SpecSimplify == InitSimplify /\ [][NextSimplify]_vars

---------------------------------------------------------------------------
\* Properties of one elimination of remove_degree_two_nodes.

\* The node the next iteration pops, its type, and the list without it.
Popped == nodes_to_visit[Len(nodes_to_visit)]
PoppedType == degree_two_node_type(graph, Popped)
Rest == SubSeq(nodes_to_visit, 1, Len(nodes_to_visit) - 1)

\* The next step is an iteration that eliminates a node of the given type.
Eliminates(node_type) ==
    /\ pc \in {"d2_loop", "rb_d2"}
    /\ nodes_to_visit # <<>>
    /\ PoppedType = node_type
    /\ err' = "none"

\* The last step was an iteration that eliminated a node of the given type.
Eliminated(node_type) ==
    /\ last.step = "d2_iter" /\ err = "none"
    /\ degree_two_node_type(prev_graph, last.node) = node_type

\* The positions of the self-loops of n in E.
LoopsAt(E, n) == {i \in DOMAIN E : E[i].u = n /\ E[i].v = n}

\* C21: when a node of type multiple is eliminated, the new self-loop on its
\* neighbour is pruned like a new multi-edge: it is removed if its length is
\* below twice the threshold.
C21_NewLoopPruned ==
    Eliminated("multiple") =>
        LET N == get_single_neighbor(prev_graph, last.node)
        IN \A i \in LoopsAt(graph, N) :
              graph[i].length < 2 * call.length_threshold =>
                  \E j \in LoopsAt(prev_graph, N) : prev_graph[j] = graph[i]

\* C21, as the code has it: when a node of type multiple is eliminated, its
\* two parallel edges are replaced by one self-loop on the neighbour N, which
\* stays whatever its length, with is_branch false; no other edge changes,
\* and the work list only loses N, when N had degree 2.
C21_NewLoopKept ==
    [][Eliminates("multiple") =>
         LET N == get_single_neighbor(graph, Popped)
             old == Between(graph, Popped, N)
         IN /\ Len(graph') = Len(graph) - 1
            /\ \A i \in 1..(Len(graph') - 1) : graph'[i] = RemovePositions(graph, old)[i]
            /\ LET e == graph'[Len(graph')]
               IN /\ e.u = N /\ e.v = N /\ ~e.is_branch
                  /\ e.length >= SumLengths(graph, old)
            /\ nodes_to_visit' = IF degree(graph, N) = 2 THEN ListRemove(Rest, N) ELSE Rest]_vars

\* C21 witness: a node of type multiple was eliminated and the new self-loop,
\* shorter than twice the threshold, is in the graph.
C21_Witness ==
    /\ Eliminated("multiple")
    /\ \E i \in LoopsAt(graph, get_single_neighbor(prev_graph, last.node)) :
          /\ graph[i].length < 2 * call.length_threshold
          /\ \A j \in DOMAIN prev_graph : prev_graph[j] # graph[i]

\* The two neighbours of a simple node n of E, the smaller first.
Nei1(E, n) == CHOOSE a \in neighbors(E, n) : \A b \in neighbors(E, n) : a <= b
Nei2(E, n) == CHOOSE a \in neighbors(E, n) : \A b \in neighbors(E, n) : a >= b

\* An edge without its is_branch attribute.
Bare(e) == [u |-> e.u, v |-> e.v, key |-> e.key, length |-> e.length, path |-> e.path]

BareBetween(E, a, b) == {Bare(E[i]) : i \in Between(E, a, b)}

\* The edge that eliminating the simple node n of E adds between its
\* neighbours, before any pruning.
NewEdge(E, n) ==
    LET a == Nei1(E, n)
        b == Nei2(E, n)
        new == make_new_path(E, n, a, get_single_edge_key(E, n, a),
                             b, get_single_edge_key(E, n, b))
    IN [u |-> a, v |-> b,
        key |-> new_edge_key(E, a, b),
        length |-> new.length, path |-> new.path]

MinLength(S) == CHOOSE m \in {e.length : e \in S} : \A e \in S : m <= e.length

EliminatedJoined ==
    /\ Eliminated("simple")
    /\ has_edge(prev_graph, Nei1(prev_graph, last.node), Nei2(prev_graph, last.node))

EdgesAt(E, n) == {i \in DOMAIN E : n \in {E[i].u, E[i].v}}

\* C23: eliminating a simple node whose neighbours had no edge between them:
\* the new edge gets is_branch = true if at least one of the two neighbours
\* has degree 1 and false otherwise, and no other edge's flag changes.
C23_NewEdgeFlag ==
    [][Eliminates("simple") /\ ~has_edge(graph, Nei1(graph, Popped), Nei2(graph, Popped)) =>
         LET a == Nei1(graph, Popped)
             b == Nei2(graph, Popped)
             others == RemovePositions(graph, EdgesAt(graph, Popped))
             e == graph'[Len(graph')]
         IN /\ Len(graph') = Len(others) + 1
            /\ \A i \in DOMAIN others : graph'[i] = others[i]
            /\ Bare(e) = NewEdge(graph, Popped)
            /\ e.is_branch <=> (degree(graph', a) = 1 \/ degree(graph', b) = 1)
            /\ degree(graph', a) = degree(graph, a)
            /\ degree(graph', b) = degree(graph, b)]_vars

\* C23 witness: such an elimination happened next to exactly one leaf, so
\* that the new edge, the only one between the neighbours, is a branch.
C23_Witness ==
    /\ Eliminated("simple")
    /\ LET a == Nei1(prev_graph, last.node)
           b == Nei2(prev_graph, last.node)
       IN /\ ~has_edge(prev_graph, a, b)
          /\ Cardinality({n \in {a, b} : degree(graph, n) = 1}) = 1
          /\ \A i \in Between(graph, a, b) : graph[i].is_branch
          /\ \E i \in DOMAIN graph : ~graph[i].is_branch

---------------------------------------------------------------------------
\* Properties of one iteration of remove_branches.

\* The last step popped a branch, removed it and left the surviving end
\* with degree 1.
PoppedLeftLeaf ==
    /\ last.step = "pop" /\ last.existed
    /\ pc = "rb_loop"
    /\ degree(graph, last.node) = 1

\* The tasks that name the edge at position i of E, in either direction.
TasksOf(E, i) == {<<E[i].u, E[i].v, E[i].key>>, <<E[i].v, E[i].u, E[i].key>>}

\* C24: after a popped branch is removed and the surviving end is left with
\* degree 1, the end's one remaining edge has is_branch = true and is in the
\* priority queue only if its length is below the threshold.
C24_TargetQueuedOnlyIfSmall ==
    PoppedLeftLeaf =>
        LET i == TargetEdge(graph, last.node)
        IN /\ graph[i].is_branch
           /\ (\E t \in TasksOf(graph, i) : PQ_has(branch_queue, t)) =>
                 graph[i].length < call.length_threshold

---------------------------------------------------------------------------
\* Properties of the branch changes remove_degree_two_nodes returns.

D2Returned ==
    /\ call.fn = "remove_degree_two_nodes" /\ call.return_branch_changes
    /\ pc = "done"

\* The triple names an edge of E.
Names(E, b) == HasEdgeKey(E, b[1], b[2], b[3])
Named(E, b) == E[PosOf(E, b[1], b[2], b[3])]

\* C25: at the return of remove_degree_two_nodes with return_branch_changes,
\* every triple of added_branches names an edge of the graph that is incident
\* to a degree-1 node, is flagged is_branch and is shorter than the threshold;
\* every triple of removed_branches names an edge that was a branch shorter
\* than the threshold on entry and is no longer in the graph; the two sets
\* are disjoint.
C25_BranchChangesSound ==
    D2Returned =>
        /\ \A b \in added_branches :
              /\ Names(graph, b)
              /\ degree(graph, b[1]) = 1 \/ degree(graph, b[2]) = 1
              /\ Named(graph, b).is_branch
              /\ Named(graph, b).length < call.length_threshold
        /\ \A b \in removed_branches :
              /\ Names(init_graph, b)
              /\ Named(init_graph, b).is_branch
              /\ Named(init_graph, b).length < call.length_threshold
              /\ ~Names(graph, b)
        /\ added_branches \cap removed_branches = {}

---------------------------------------------------------------------------
\* Properties of the graph remove_degree_two_nodes leaves.

\* A degree-2 node with two distinct neighbours.
SimpleNodes(E) ==
    {n \in Nodes : degree(E, n) = 2 /\ degree_two_node_type(E, n) = "simple"}

D2AllReturned ==
    /\ call.fn = "remove_degree_two_nodes" /\ call.initial_node = -1
    /\ pc = "done"

\* C26: when remove_degree_two_nodes called with initial_node = None returns,
\* and when adjust_graph returns, no node of degree 2 has two distinct
\* neighbours: every degree-2 node left has two parallel edges to one
\* neighbour or a single self-loop.
C26_NoSimpleNodeLeft ==
    D2AllReturned \/ AdjReturned =>
        \A n \in Nodes :
            degree(graph, n) = 2 =>
                degree_two_node_type(graph, n) \in {"multiple", "loop"}

\* The call started with simple nodes, pruned a multi-edge on the way and
\* returned a graph that still has degree-2 nodes.
C26_Witness ==
    /\ D2AllReturned
    /\ SimpleNodes(init_graph) # {}
    /\ \E n \in Nodes : degree(graph, n) = 2
    /\ \E n \in Nodes : degree(graph, n) = 2 /\ degree(init_graph, n) > 2

---------------------------------------------------------------------------
\* Properties of remove_small_graph_components.

CompReturned == pc = "done" /\ call.fn = "remove_small_graph_components"

\* F is E without the edges of the components shorter than T: no edge of F
\* joins nodes of such a component, and every edge of the other components is
\* in F with the attributes it has in E.
ComponentsPruned(E, F, T) ==
    /\ \A i \in DOMAIN E :
          IF comp_length(E, E[i].u) < T
          THEN \A j \in DOMAIN F :
                  /\ F[j].u \notin component(E, {E[i].u})
                  /\ F[j].v \notin component(E, {E[i].u})
          ELSE \E j \in DOMAIN F : F[j] = E[i]
    /\ \A j \in DOMAIN F : \E i \in DOMAIN E : F[j] = E[i]

\* C27: after remove_small_graph_components(graph, T) every component whose
\* edge lengths summed to less than T has lost all its edges, parallel edges
\* and self-loops included, and every edge of the components of total length
\* >= T is still in the graph with the same attributes.
C27_SmallComponentsRemoved ==
    CompReturned => ComponentsPruned(init_graph, graph, call.length_threshold)

\* A graph with a short component that has parallel edges, another that has
\* a self-loop, and a component that is long enough to stay.
C27_Witness ==
    /\ CompReturned
    /\ graph # <<>>
    /\ \E i \in DOMAIN init_graph :
          /\ init_graph[i].key = 1
          /\ comp_length(init_graph, init_graph[i].u) < call.length_threshold
    /\ \E i \in DOMAIN init_graph :
          /\ init_graph[i].u = init_graph[i].v
          /\ comp_length(init_graph, init_graph[i].u) < call.length_threshold

\* adjust_graph prunes the components with twice its length_threshold.
AdjustPrunesAtTwiceThreshold ==
    [][pc = "rb_loop" /\ pc' = "done" /\ call.fn = "adjust_graph"
         => ComponentsPruned(graph, prev_graph', 2 * call.length_threshold)]_vars

---------------------------------------------------------------------------
\* Properties of the edge count in remove_branches.

InRemoveBranches == call.fn = "remove_branches"

\* C28: no step of remove_branches increases the number of edges: a pop that
\* finds its edge removes exactly that one, a cascaded elimination replaces
\* two edges by one (and may prune the new multi-edge), and nothing else
\* changes the count; so an iteration of the loop, and the whole call, end
\* with at most as many edges as they started with.
C28_EdgeCountNeverGrows ==
    [][InRemoveBranches =>
          /\ Len(graph') <= Len(graph)
          /\ Len(graph') <= Len(init_graph)
          /\ (pc = "rb_loop" /\ pc' # "raised" /\ branch_queue # <<>>)
                => Len(graph') = Len(graph) - 1
          /\ (pc = "rb_d2" /\ nodes_to_visit # <<>> /\ pc' # "raised")
                => Len(graph') \in {Len(graph) - 1, Len(graph) - 2}
          /\ (pc' = "done" \/ (pc = "rb_d2" /\ nodes_to_visit = <<>>))
                => Len(graph') = Len(graph)]_vars

\* A cascaded elimination inside remove_branches has just merged two edges
\* into one that stays in the graph.
C28_Witness ==
    /\ InRemoveBranches
    /\ last.step = "d2_iter" /\ err = "none"
    /\ Len(graph) = Len(prev_graph) - 1
    /\ Len(graph) < Len(init_graph) - 1

---------------------------------------------------------------------------
\* Properties of simplify.

SimplifyReturned == pc = "done" /\ call.fn = "simplify"

\* new is old with something before it and something after it, nothing
\* before if first_single and nothing after if second_single.
Extends(new, old, first_single, second_single) ==
    \E k \in 0..(Len(new) - Len(old)) :
        /\ SubSeq(new, k + 1, k + Len(old)) = old
        /\ first_single => k = 0
        /\ second_single => k + Len(old) = Len(new)

\* C29: simplify returns a graph with the nodes, node attributes, edges and
\* edge keys of its argument, in which only the paths differ: each new path
\* holds the old one as a contiguous segment, with nothing before it when the
\* first endpoint has exactly one pixel and nothing after it when the second
\* has; the argument's paths are left as they were.
C29_OnlyPathsExtended ==
    call.fn = "simplify" =>
        /\ graph = init_graph
        /\ SimplifyReturned =>
              /\ graph_simple.nodes = graph_simple.arg_nodes
              /\ Len(graph_simple.edges) = Len(init_graph)
              /\ \A i \in DOMAIN init_graph :
                    /\ [graph_simple.edges[i] EXCEPT !.path = init_graph[i].path]
                          = init_graph[i]
                    /\ Extends(graph_simple.edges[i].path, init_graph[i].path,
                               Len(graph_simple.arg_nodes[init_graph[i].u + 1].pixels) = 1,
                               Len(graph_simple.arg_nodes[init_graph[i].v + 1].pixels) = 1)

\* simplify returned a graph in which one path was extended on both sides
\* and another, whose path starts two or more pixels away from a first
\* endpoint of one pixel, got nothing before it.
C29_Witness ==
    /\ SimplifyReturned
    /\ \E i \in DOMAIN init_graph :
          /\ Len(graph_simple.arg_nodes[init_graph[i].u + 1].pixels) = 1
          /\ line_nd(graph_simple.arg_nodes[init_graph[i].u + 1].center,
                     init_graph[i].path[1]) # <<>>
          /\ WithoutStart(line_nd(graph_simple.arg_nodes[init_graph[i].u + 1].center,
                                  init_graph[i].path[1])) # <<>>
          /\ graph_simple.edges[i].path[1] = init_graph[i].path[1]
    /\ \E i \in DOMAIN init_graph :
          /\ graph_simple.edges[i].path[1] # init_graph[i].path[1]
          /\ graph_simple.edges[i].path[Len(graph_simple.edges[i].path)]
                # init_graph[i].path[Len(init_graph[i].path)]

---------------------------------------------------------------------------
\* Properties of remove_isolated_points.

\* new_ips and new_edges are ips and edges without the points that end no
\* edge: the points kept are exactly the ends of the edges, and every edge
\* keeps its path and names, with its new indices, the points it named.
IsolatedRemoved(ips, edges, new_ips, new_edges) ==
    /\ Len(new_ips) = Cardinality(EdgeEnds(edges))
    /\ {new_ips[k] : k \in DOMAIN new_ips} = {ips[n + 1] : n \in EdgeEnds(edges)}
    /\ Len(new_edges) = Len(edges)
    /\ \A i \in DOMAIN edges :
          /\ new_edges[i][3] = edges[i][3]
          /\ new_edges[i][1] \in 0..(Len(new_ips) - 1)
          /\ new_edges[i][2] \in 0..(Len(new_ips) - 1)
          /\ new_ips[new_edges[i][1] + 1] = ips[edges[i][1] + 1]
          /\ new_ips[new_edges[i][2] + 1] = ips[edges[i][2] + 1]

\* C30: remove_isolated_points keeps exactly the interest points that are an
\* endpoint of an edge, numbers them 0..M-1, and rewrites the endpoints of
\* every edge so that the new indices name, in the new list, the points the
\* old indices named in the old one.
C30_EndpointsConsistent ==
    [][(pc = "call" /\ call.fn = "remove_isolated_points")
          => IsolatedRemoved(creation.ips, creation.edges,
                             creation'.ips, creation'.edges)]_vars

---------------------------------------------------------------------------
\* Properties of track_branches.

\* track_branches is running or has just returned: creation.ips still has
\* the branches, creation.edges the edges tracked so far.
Tracking == call.fn = "create_graph" /\ pc \in {"track", "finish"}

LastPixel(edge) == edge[3][Len(edge[3])]

\* The points that have the last pixel of the edge's path as a branch.
EndPoints(edge) == branch_map(creation.ips, LastPixel(edge))

\* C31: when the last pixel of a tracked path is a branch pixel of two
\* different interest points, the edge's second endpoint is the one of the two
\* that did not start the walk: the edge joins the two points and is no
\* self-loop.
C31_SharedPixelJoinsBoth ==
    Tracking =>
        \A i \in DOMAIN creation.edges :
            Cardinality(EndPoints(creation.edges[i])) = 2 =>
                /\ creation.edges[i][1] # creation.edges[i][2]
                /\ {creation.edges[i][1], creation.edges[i][2]} = EndPoints(creation.edges[i])

\* track_branches has recorded an edge whose last pixel is shared by two
\* points, the first of which started the walk.
C31_Witness ==
    /\ Tracking
    /\ \E i \in DOMAIN creation.edges :
          /\ Cardinality(EndPoints(creation.edges[i])) = 2
          /\ \A n \in EndPoints(creation.edges[i]) : creation.edges[i][1] <= n

\* The pixels of the grid with two neighbours that are next to p.
ChainNeighbors(p, img_num_neighbors) ==
    {q \in DOMAIN img_num_neighbors : Adjacent(p, q) /\ img_num_neighbors[q] = 2}

\* path is a chain of pixels with two neighbours that starts at first_point
\* and cannot be continued.
IsTrackedChain(path, first_point, img_num_neighbors) ==
    /\ path # <<>>
    /\ path[1] = first_point
    /\ \A j \in DOMAIN path : img_num_neighbors[path[j]] = 2
    /\ \A j \in 1..(Len(path) - 1) : Adjacent(path[j], path[j + 1])
    /\ \A j \in DOMAIN path : \A k \in DOMAIN path : path[j] = path[k] => j = k
    /\ ChainNeighbors(path[Len(path)], img_num_neighbors)
          \subseteq (IF Len(path) = 1 THEN {} ELSE {path[Len(path) - 1]})

\* C32: on the neighbour-count grid of a skeleton, track_branch of any branch
\* of any interest point ends, and its path starts at the branch pixel, has
\* only pixels with two neighbours, each next to the one before, none twice,
\* and a last pixel with no neighbour with two neighbours but the one before.
C32_TrackedPathIsChain ==
    Tracking =>
        \A n \in DOMAIN creation.ips :
            \A branch_index \in 0..(Len(creation.ips[n].branches) - 1) :
                LET t == track_branch(creation.ips[n], branch_index,
                                      creation.img_num_neighbors)
                IN /\ t.ends
                   /\ IsTrackedChain(t.path, creation.ips[n].branches[branch_index + 1],
                                     creation.img_num_neighbors)

\* A path of three pixels or more has been tracked.
C32_Witness ==
    /\ Tracking
    /\ \E i \in DOMAIN creation.edges :
          /\ Len(creation.edges[i][3]) >= 3
          /\ IsTrackedChain(creation.edges[i][3], creation.edges[i][3][1],
                            creation.img_num_neighbors)

\* Properties of remove_single_pixel_self_edges.

\* The edge joins a point to itself with a path of one pixel.
SinglePixelSelfEdge(edge) == edge[1] = edge[2] /\ Len(edge[3]) = 1

\* The positions of edges that are not single-pixel self-loops.
KeptPositions(edges) == {i \in DOMAIN edges : ~SinglePixelSelfEdge(edges[i])}

\* new_edges is edges without its single-pixel self-loops, in the same order.
DropsOnlySinglePixelSelfEdges(edges, new_edges) ==
    /\ Len(new_edges) = Cardinality(KeptPositions(edges))
    /\ \A i \in KeptPositions(edges) :
          new_edges[Cardinality({k \in KeptPositions(edges) : k <= i})] = edges[i]

\* The edges create_graph hands to remove_single_pixel_self_edges, line 636.
EdgesBeforeSelfEdgeRemoval ==
    remove_isolated_points(creation.ips, creation.edges).edges

AllTracked == call.fn = "create_graph" /\ pc = "finish"

\* C33: remove_single_pixel_self_edges drops the edges that join a point to
\* itself with a path of one pixel and no other, and keeps the rest in order.
C33_OnlySinglePixelSelfEdgesDropped ==
    AllTracked =>
        DropsOnlySinglePixelSelfEdges(EdgesBeforeSelfEdgeRemoval,
            remove_single_pixel_self_edges(EdgesBeforeSelfEdgeRemoval))

\* The list holds a single-pixel self-loop and, after it, an edge that is kept.
C33_Witness ==
    /\ AllTracked
    /\ \E i \in DOMAIN EdgesBeforeSelfEdgeRemoval :
          /\ SinglePixelSelfEdge(EdgesBeforeSelfEdgeRemoval[i])
          /\ \E j \in KeptPositions(EdgesBeforeSelfEdgeRemoval) : j > i

\* Properties of track_branches on a list of interest points that may lack
\* the point at the other end of a branch.

\* The pixel is a branch of no point of the list.
NoOwner(ips, pixel) == \A k \in DOMAIN ips : ~InList(ips[k].branches, pixel)

\* The path track_branches is about to track, or the empty path if the branch
\* at hand has been visited.
PathAtHand ==
    IF pc = "track" /\ creation.ips[creation.ip1_idx + 1].branches[creation.branch_idx + 1]
                          \notin creation.visited_branches
    THEN track_branch(creation.ips[creation.ip1_idx + 1], creation.branch_idx,
                      creation.img_num_neighbors).path
    ELSE <<>>

\* C34: when the last pixel of a tracked path is a branch of no interest
\* point, track_branches raises an error and adds no edge; every edge it has
\* added joins two points of the list, and its path ends at a branch of the
\* second one.
C34_MissingEndpointRaises ==
    [][/\ (PathAtHand # <<>> /\ NoOwner(creation.ips, PathAtHand[Len(PathAtHand)]))
            => /\ pc' = "raised"
               /\ err' = "KeyError"
               /\ creation'.edges = creation.edges
       /\ \A i \in DOMAIN creation'.edges :
             /\ creation'.edges[i][1] \in 0..(Len(creation'.ips) - 1)
             /\ creation'.edges[i][2] \in 0..(Len(creation'.ips) - 1)
             /\ InList(creation'.ips[creation'.edges[i][2] + 1].branches,
                       creation'.edges[i][3][Len(creation'.edges[i][3])])]_vars

\* track_branches has raised after adding an edge.
C34_Witness ==
    /\ call.fn = "track_branches"
    /\ pc = "raised"
    /\ err = "KeyError"
    /\ creation.edges # <<>>

\* Properties of track_branch called with an index that names no branch.

BranchesAtHand == creation.ips[creation.ip1_idx + 1].branches

AboutToPop == pc \in {"d2_loop", "rb_d2"} /\ nodes_to_visit # <<>>

\* C36: in adjust_graph, every node remove_degree_two_nodes pops from its
\* work list has degree two and type simple or multiple; if it is multiple
\* and its neighbour has degree two, the neighbour is in the rest of the work
\* list; and the iteration raises nothing.
C36_PoppedNodesCanBeEliminated ==
    [][AboutToPop =>
          /\ degree(graph, Popped) = 2
          /\ degree_two_node_type(graph, Popped) \in {"simple", "multiple"}
          /\ (/\ degree_two_node_type(graph, Popped) = "multiple"
              /\ degree(graph, get_single_neighbor(graph, Popped)) = 2)
                => InList(Rest, get_single_neighbor(graph, Popped))
          /\ err' = "none"
          /\ pc' = pc]_vars

\* A multiple node whose neighbour has degree two has been popped, inside
\* adjust_graph.
C36_Witness ==
    /\ call.fn = "adjust_graph"
    /\ last.step = "d2_iter"
    /\ degree_two_node_type(prev_graph, last.node) = "multiple"
    /\ degree(prev_graph, get_single_neighbor(prev_graph, last.node)) = 2
    /\ err = "none"

\* Properties of the paths remove_degree_two_nodes builds.

\* The pixel lies beside the center of node n.
Beside(pixel, n) == Abs(pixel[1] - Center(n)[1]) = 1 /\ Abs(pixel[2] - Center(n)[2]) <= 1

\* The path leaves beside the center of a and arrives beside the center of b.
RunsFromTo(path, a, b) == Beside(path[1], a) /\ Beside(path[Len(path)], b)

\* Every path of E runs from its edge's smaller endpoint to the larger one.
PathsRunUpward(E) ==
    \A i \in DOMAIN E : E[i].u <= E[i].v /\ RunsFromTo(E[i].path, E[i].u, E[i].v)

\* The path, turned if need be so that it runs from a to b.
TurnedFromTo(path, a, b) == IF RunsFromTo(path, a, b) THEN path ELSE Reverse(path)

PixelCount(path, pixel) == Cardinality({k \in DOMAIN path : path[k] = pixel})

\* The positions of the edges of E2 whose path is the path of no edge of E1.
NewPaths(E1, E2) == {i \in DOMAIN E2 : \A j \in DOMAIN E1 : E1[j].path # E2[i].path}

\* C37: if every path runs from the smaller to the larger endpoint, an edge
\* made by an iteration of remove_degree_two_nodes joins nei1 <= nei2, and its
\* path is the path between nei1 and the node, running from nei1 to the node,
\* then the center of the node, then the path between the node and nei2,
\* running from the node to nei2; it runs from nei1 to nei2 and has every
\* pixel of the two paths as often as they had it, and the center once more.
C37_MergedPathRunsUpward ==
    [][(AboutToPop /\ err' = "none" /\ PathsRunUpward(graph)) =>
          /\ PathsRunUpward(graph')
          /\ \A i \in NewPaths(graph, graph') :
                LET a == Nei1(graph, Popped)
                    b == Nei2(graph, Popped)
                IN /\ a <= b
                   /\ graph'[i].u = a /\ graph'[i].v = b
                   /\ RunsFromTo(graph'[i].path, a, b)
                   /\ \E j \in Between(graph, Popped, a) : \E k \in Between(graph, Popped, b) :
                         /\ j # k
                         /\ graph'[i].path =
                               TurnedFromTo(graph[j].path, a, Popped)
                                  \o <<Center(Popped)>>
                                  \o TurnedFromTo(graph[k].path, Popped, b)
                         /\ \A pixel \in {graph'[i].path[n] : n \in DOMAIN graph'[i].path} :
                               PixelCount(graph'[i].path, pixel) =
                                  PixelCount(graph[j].path, pixel)
                                  + PixelCount(graph[k].path, pixel)
                                  + (IF pixel = Center(Popped) THEN 1 ELSE 0)
                         /\ Len(graph'[i].path) = Len(graph[j].path) + Len(graph[k].path) + 1]_vars

\* An iteration has eliminated a node with a smaller index than both its
\* neighbours, so that the first of the two paths was turned, and the new
\* edge, made of two merged paths already, is in the graph.
C37_Witness ==
    /\ Eliminated("simple")
    /\ last.node < Nei1(prev_graph, last.node)
    /\ PathsRunUpward(prev_graph)
    /\ \E i \in NewPaths(prev_graph, graph) : Len(graph[i].path) >= 7

\* Properties of the pruning of parallel edges.

\* The next step is remove_small_mul_all, on its own or at the start of
\* adjust_graph, or an iteration of remove_degree_two_nodes.
PruningStep ==
    \/ pc = "call" /\ call.fn \in {"adjust_graph", "remove_small_mul_all"}
    \/ AboutToPop

\* C38: remove_small_mul_all and the pruning of a new multiple edge inside
\* remove_degree_two_nodes leave every pair of distinct nodes that had an edge
\* with an edge; an iteration takes edges away from the eliminated node only,
\* and leaves the two neighbours of an eliminated simple node joined.
C38_PruningKeepsPairsJoined ==
    [][PruningStep =>
          /\ \A a \in Nodes : \A b \in Nodes :
                (/\ a # b
                 /\ has_edge(graph, a, b)
                 /\ ~(AboutToPop /\ Popped \in {a, b}))
                   => has_edge(graph', a, b)
          /\ (AboutToPop /\ err' = "none" /\ PoppedType = "simple")
                => has_edge(graph', Nei1(graph, Popped), Nei2(graph, Popped))]_vars

\* An iteration of adjust_graph has eliminated a simple node whose neighbours
\* were joined by one edge, and one of the two parallel edges was pruned.
C38_Witness ==
    /\ call.fn = "adjust_graph"
    /\ EliminatedJoined
    /\ Cardinality(Between(prev_graph, Nei1(prev_graph, last.node),
                           Nei2(prev_graph, last.node))) = 1
    /\ Cardinality(Between(graph, Nei1(prev_graph, last.node),
                           Nei2(prev_graph, last.node))) = 1

\* Properties of the edges track_branches returns.

\* The edges that start or end at the pixel.
EdgesEndingAt(edges, pixel) ==
    {i \in DOMAIN edges : edges[i][3][1] = pixel \/ LastPixel(edges[i]) = pixel}

\* C39: on the neighbour counts of a skeleton, when track_branches is done
\* every branch pixel of every interest point is the first or the last pixel
\* of exactly one edge, and the path of every edge (ip1, ip2, path) starts at
\* a branch of ip1 and ends at a branch of ip2.
C39_EveryChainOnce ==
    AllTracked =>
        /\ \A n \in DOMAIN creation.ips :
              \A k \in DOMAIN creation.ips[n].branches :
                 Cardinality(EdgesEndingAt(creation.edges, creation.ips[n].branches[k])) = 1
        /\ \A i \in DOMAIN creation.edges :
              /\ InList(creation.ips[creation.edges[i][1] + 1].branches,
                        creation.edges[i][3][1])
              /\ InList(creation.ips[creation.edges[i][2] + 1].branches,
                        LastPixel(creation.edges[i]))

\* track_branches is done with a skeleton that has three edges or more, one
\* of them with a path of two pixels or more, and an interest point with
\* three branches.
C39_Witness ==
    /\ AllTracked
    /\ Len(creation.edges) >= 3
    /\ \E i \in DOMAIN creation.edges : Len(creation.edges[i][3]) >= 2
    /\ \E n \in DOMAIN creation.ips : Len(creation.ips[n].branches) >= 3

\* Termination of remove_branches.

\* C40: remove_branches terminates with its queue empty: every iteration of
\* its loop pops an edge the graph has and removes it, so that the graph
\* loses an edge with every iteration and the loop goes on to the next one
\* until the queue is empty.
C40_EveryIterationRemovesAnEdge ==
    [][(pc = "rb_loop" /\ branch_queue # <<>>) =>
          /\ HasEdgeKey(graph, branch_queue[PQ_first(branch_queue)].task[1],
                        branch_queue[PQ_first(branch_queue)].task[2],
                        branch_queue[PQ_first(branch_queue)].task[3])
          /\ Len(graph') < Len(graph)
          /\ err' = "none"
          /\ pc' \in {"rb_loop", "rb_d2"}]_vars

====
